---- MODULE Spec2Model ----
(***************************************************************************)
(* A model of the gisp interpreter (package gisp): the value universe, the *)
(* chained environment (Env), the evaluator (Eval, CallLambda, callop,     *)
(* callcond) and the built-in registry.                                     *)
(*                                                                         *)
(* Values are records tagged by their Go dynamic type in field t.  Two Go  *)
(* values that are not gisp objects also flow through the interpreter and  *)
(* are modelled as values of their own: the untyped nil interface (GoNil)  *)
(* and the Go int returned by callop for an empty "+" form (GoInt).        *)
(* A Float is an exact rational num/den (den > 0, lowest terms); den = 0   *)
(* stands for the non-finite results of a float division by zero.          *)
(* A String holds its bytes as a sequence of numbers.                      *)
(* A run-time panic (integer division by zero) is the outcome Panic; it    *)
(* unwinds every enclosing call, because no function of the package        *)
(* recovers.                                                               *)
(***************************************************************************)
EXTENDS Integers, Sequences, FiniteSets, TLC

VARIABLES heap, builtins, op, ret, log, pre, mem

vars == <<heap, builtins, op, ret, log, pre, mem>>

(***************************************************************************)
(* Bounds of the model                                                     *)
(***************************************************************************)
MaxDepth == 3
MaxFuel == 7
MaxDice == 2

(***************************************************************************)
(* The value universe                                                      *)
(***************************************************************************)
True == [t |-> "Boolean", b |-> TRUE]
Nil == [t |-> "Boolean", b |-> FALSE]
GoNil == [t |-> "nil"]
GoInt(n) == [t |-> "int", raw |-> n]
\* the Go values float64, string, bool and []any
GoFloat(num, den) == [t |-> "float64", num |-> num, den |-> den]
GoString(v) == [t |-> "string", name |-> v]
GoBool(v) == [t |-> "bool", raw |-> v]
GoSlice(items) == [t |-> "slice", items |-> items]
Panic == [t |-> "Panic"]
Diverge == [t |-> "Diverge"]

ErrEOF == [t |-> "Error", err |-> "EOF"]
ErrInvalid == [t |-> "Error", err |-> "invalid-token"]
ErrInvalidType == [t |-> "Error", err |-> "invalid-parameter-type"]
ErrMissing == [t |-> "Error", err |-> "missing-parameter"]

MakeBool(v) == [t |-> "Boolean", b |-> v]
MakeInt(v) == [t |-> "Integer", i |-> v]
MakeString(v) == [t |-> "String", s |-> v]
MakeList(items) == [t |-> "List", items |-> items]
Symbol(v) == [t |-> "Symbol", name |-> v]
Quoted(v) == [t |-> "Quoted", q |-> v]
Op(v) == [t |-> "Op", op |-> v]
Cond(v) == [t |-> "Cond", cond |-> v]
Lambda(args, body) == [t |-> "Lambda", args |-> args, body |-> body]

Abs(n) == IF n < 0 THEN -n ELSE n
Sign(n) == IF n < 0 THEN -1 ELSE IF n = 0 THEN 0 ELSE 1

RECURSIVE GCD(_, _)
GCD(a, b) == IF b = 0 THEN a ELSE GCD(b, a % b)

\* Go's integer division truncates toward zero; the remainder takes the sign
\* of the dividend.  Both are used with a non-zero divisor only.
\* division rounding toward minus infinity
GoDivFloor(a, b) == IF b < 0 THEN (-a) \div (-b) ELSE a \div b
GoDiv(a, b) == Sign(a) * Sign(b) * (Abs(a) \div Abs(b))
GoRem(a, b) == a - b * GoDiv(a, b)

\* The float64 num/den in lowest terms; den = 0 is +Inf (num 1), -Inf
\* (num -1) or NaN (num 0).
MakeFloat(num, den) ==
    IF den = 0 THEN [t |-> "Float", num |-> Sign(num), den |-> 0]
    ELSE LET g == GCD(Abs(num), Abs(den))
         IN [t |-> "Float", num |-> Sign(den) * (num \div g), den |-> Abs(den) \div g]

FIsNaN(a) == a.den = 0 /\ a.num = 0
FNaN == MakeFloat(0, 0)

FAdd(a, b) ==
    IF a.den # 0 /\ b.den # 0 THEN MakeFloat(a.num * b.den + b.num * a.den, a.den * b.den)
    ELSE IF FIsNaN(a) \/ FIsNaN(b) THEN FNaN
    ELSE IF a.den = 0 /\ b.den = 0 THEN (IF a.num = b.num THEN a ELSE FNaN)
    ELSE IF a.den = 0 THEN a ELSE b

FNeg(a) == [t |-> "Float", num |-> -a.num, den |-> a.den]
FSub(a, b) == FAdd(a, FNeg(b))

FMul(a, b) ==
    IF a.den # 0 /\ b.den # 0 THEN MakeFloat(a.num * b.num, a.den * b.den)
    ELSE IF FIsNaN(a) \/ FIsNaN(b) \/ a.num = 0 \/ b.num = 0 THEN FNaN
    ELSE MakeFloat(Sign(a.num) * Sign(b.num), 0)

FDiv(a, b) ==
    IF a.den # 0 /\ b.den # 0
    THEN (IF b.num = 0 THEN MakeFloat(Sign(a.num), 0)
          ELSE MakeFloat(a.num * b.den, a.den * b.num))
    ELSE IF FIsNaN(a) \/ FIsNaN(b) \/ (a.den = 0 /\ b.den = 0) THEN FNaN
    ELSE IF a.den = 0 THEN MakeFloat(a.num * (IF b.num < 0 THEN -1 ELSE 1), 0)
    ELSE MakeFloat(0, 1)

FLt(a, b) ==
    IF FIsNaN(a) \/ FIsNaN(b) THEN FALSE
    ELSE IF a.den # 0 /\ b.den # 0 THEN a.num * b.den < b.num * a.den
    ELSE IF a.den = 0 /\ b.den = 0 THEN a.num < b.num
    ELSE IF a.den = 0 THEN a.num < 0 ELSE b.num > 0

FEq(a, b) == ~FIsNaN(a) /\ ~FIsNaN(b) /\ a.num = b.num /\ a.den = b.den

(***************************************************************************)
(* Capabilities: CanInt, CanFloat, CanBool, CanCompare                     *)
(***************************************************************************)
\* only an Integer converts to an integer
CanIntStrict(v) == v.t = "Integer"
CanInt(v) == v.t \in {"Integer", "Float"}
CanFloat(v) == v.t \in {"Integer", "Float"}
CanBool(v) == v.t \in {"Boolean", "Integer", "Float", "String", "List"}
CanCompare(v) == v.t \in {"Boolean", "Integer", "Float", "String"}

\* Integer.Int and Float.Int.  The conversion of a non-finite float64 to
\* int64 is implementation-specific in Go; the model never converts one.
IntOf(v) == IF v.t = "Integer" THEN v.i
          ELSE IF v.den = 0 THEN "implementation-specific"
          ELSE Sign(v.num) * (Abs(v.num) \div v.den)

\* Integer.Float and Float.Float
Float(v) == IF v.t = "Integer" THEN MakeFloat(v.i, 1) ELSE v

Bool(v) == CASE v.t = "Boolean" -> v.b
             [] v.t = "List" -> Len(v.items) > 0
             [] OTHER -> TRUE

boolint(b) == IF b THEN 1 ELSE 0

\* Go's string comparison: lexicographic on the bytes
RECURSIVE StrLt(_, _)
StrLt(a, b) ==
    IF Len(b) = 0 THEN FALSE
    ELSE IF Len(a) = 0 THEN TRUE
    ELSE IF Head(a) # Head(b) THEN Head(a) < Head(b)
    ELSE StrLt(Tail(a), Tail(b))

Eq(o, v) ==
    CASE o.t = "Boolean" -> IF CanBool(v) THEN o.b = Bool(v) ELSE ~o.b
      [] o.t = "Integer" -> IF CanInt(v) THEN o.i = IntOf(v) ELSE FALSE
      [] o.t = "Float" -> IF CanFloat(v) THEN FEq(o, Float(v)) ELSE FALSE
      [] o.t = "String" -> IF v.t = "String" THEN o.s = v.s ELSE FALSE

Lt(o, v) ==
    CASE o.t = "Boolean" -> IF CanBool(v) THEN boolint(o.b) < boolint(Bool(v)) ELSE FALSE
      [] o.t = "Integer" -> IF CanInt(v) THEN o.i < IntOf(v) ELSE FALSE
      [] o.t = "Float" -> IF CanFloat(v) THEN FLt(o, Float(v)) ELSE FALSE
      [] o.t = "String" -> IF v.t = "String" THEN StrLt(o.s, v.s) ELSE FALSE

Leq(o, v) ==
    CASE o.t = "Boolean" -> IF CanBool(v) THEN boolint(o.b) <= boolint(Bool(v))
                            ELSE boolint(o.b) <= boolint(FALSE)
      [] o.t = "Integer" -> IF CanInt(v) THEN o.i <= IntOf(v) ELSE FALSE
      [] o.t = "Float" -> IF CanFloat(v) THEN FLt(o, Float(v)) \/ FEq(o, Float(v)) ELSE FALSE
      [] o.t = "String" -> IF v.t = "String" THEN StrLt(o.s, v.s) \/ o.s = v.s ELSE FALSE

Gt(o, v) ==
    CASE o.t = "Boolean" -> IF CanBool(v) THEN boolint(o.b) > boolint(Bool(v)) ELSE o.b
      [] o.t = "Integer" -> IF CanInt(v) THEN o.i > IntOf(v) ELSE FALSE
      [] o.t = "Float" -> IF CanFloat(v) THEN FLt(Float(v), o) ELSE FALSE
      [] o.t = "String" -> IF v.t = "String" THEN StrLt(v.s, o.s) ELSE FALSE

Geq(o, v) ==
    CASE o.t = "Boolean" -> IF CanBool(v) THEN boolint(o.b) >= boolint(Bool(v)) ELSE TRUE
      [] o.t = "Integer" -> IF CanInt(v) THEN o.i >= IntOf(v) ELSE FALSE
      [] o.t = "Float" -> IF CanFloat(v) THEN FLt(Float(v), o) \/ FEq(o, Float(v)) ELSE FALSE
      [] o.t = "String" -> IF v.t = "String" THEN StrLt(v.s, o.s) \/ o.s = v.s ELSE FALSE

quote(v) == IF v.t \in {"Symbol", "List"} THEN Quoted(v) ELSE v

(***************************************************************************)
(* The machine an evaluation runs on: the frames allocated so far (a frame *)
(* is its variables and the index of its parent, 0 for none), the record   *)
(* of what has been evaluated, and the calls still allowed.                *)
(***************************************************************************)
R(v, s) == [v |-> v, s |-> s]
Note(s, ev) == [s EXCEPT !.log = Append(@, ev)]
IsAbort(v) == v.t \in {"Panic", "Diverge"}

NoVars == [n \in {} |-> GoNil]

\* NewEnv: a fresh frame linked to prev
NewEnv(s, prev) ==
    LET e == Len(s.heap) + 1
    IN [e |-> e,
        s |-> Note([s EXCEPT !.heap = Append(@, [vars |-> NoVars, next |-> prev])],
                   [k |-> "NewEnv", e |-> e, next |-> prev])]

getname(o) ==
    CASE o.t = "Symbol" -> [name |-> o.name, err |-> GoNil]
      [] o.t = "string" -> [name |-> o.name, err |-> GoNil]
      [] OTHER -> [name |-> "", err |-> ErrInvalidType]

SetVar(s, e, name, value) ==
    [s EXCEPT !.heap[e].vars = (name :> value) @@ @]

PutLocal(s, e, o, value) ==
    LET n == getname(o)
    IN IF n.err # GoNil THEN R(n.err, s)
       ELSE R(value, SetVar(s, e, n.name, value))

\* Put as PutLocal does it: always in the frame it is called on
PutHere(s, e, o, value) ==
    LET n == getname(o)
    IN IF n.err # GoNil THEN R(n.err, s)
       ELSE R(value, SetVar(s, e, n.name, value))

RECURSIVE Put(_, _, _, _)
Put(s, e, o, value) ==
    LET n == getname(o)
    IN IF n.err # GoNil THEN R(n.err, s)
       ELSE IF n.name \in DOMAIN s.heap[e].vars \/ s.heap[e].next = 0
            THEN R(value, SetVar(s, e, n.name, value))
            ELSE R(value, Put(s, s.heap[e].next, o, value).s)

invalidType(v) == ErrInvalidType

IntApply(o, v, i) ==
    CASE o = "+" -> v + i
      [] o = "-" -> v - i
      [] o = "*" -> v * i
      [] o = "/" -> GoDiv(v, i)
      [] o = "%" -> GoRem(v, i)
      [] OTHER -> v

FloatApply(o, v, f) ==
    CASE o = "+" -> FAdd(v, f)
      [] o = "-" -> FSub(v, f)
      [] o = "*" -> FMul(v, f)
      [] o = "/" -> FDiv(v, f)
      [] o = "%" -> MakeFloat(GoRem(IntOf(v), IntOf(f)), 1)
      [] OTHER -> v

Compare(o, c1, c2) ==
    CASE o = "=" -> Eq(c1, c2)
      [] o = "<" -> Lt(c1, c2)
      [] o = "<=" -> Leq(c1, c2)
      [] o = ">" -> Gt(c1, c2)
      [] o = ">=" -> Geq(c1, c2)
      [] OTHER -> FALSE

\* strings.Index: the byte offset of the first occurrence of ss in t, or -1
StrIndex(t, ss) ==
    LET at == {p \in 0..(Len(t) - Len(ss)) : SubSeq(t, p + 1, p + Len(ss)) = ss}
    IN IF at = {} THEN -1 ELSE CHOOSE p \in at : \A q \in at : p <= q

\* Go's == on two interface values: values of different dynamic types are
\* unequal; values of one type that holds a slice (List, Lambda, or a Quoted
\* wrapping such values) cannot be compared and the comparison panics
RECURSIVE Uncomparable(_, _)
Uncomparable(a, b) ==
    /\ a.t = b.t
    /\ \/ a.t \in {"List", "Lambda"}
       \/ a.t = "Quoted" /\ Uncomparable(a.q, b.q)
GoEqual(a, b) == IF a.t = "Float" /\ b.t = "Float" THEN FEq(a, b) ELSE a = b

\* slices.Index(items, n) from position i on: the index of the first item
\* equal to n, -1 if there is none, -2 if a comparison on the way panics
RECURSIVE SliceIndex(_, _, _)
SliceIndex(items, n, i) ==
    IF i > Len(items) THEN -1
    ELSE IF Uncomparable(items[i], n) THEN -2
    ELSE IF GoEqual(items[i], n) THEN i - 1
    ELSE SliceIndex(items, n, i + 1)

\* Object.Value
GoValue(v) ==
    CASE v.t = "Boolean" -> GoBool(v.b)
      [] v.t = "Integer" -> GoInt(v.i)
      [] v.t = "Float" -> GoFloat(v.num, v.den)
      [] v.t = "String" -> GoString(v.s)
      [] v.t = "List" -> GoSlice(v.items)
      [] v.t = "Lambda" -> Nil
      [] OTHER -> v

\* strconv's decimal digits of n >= 0
RECURSIVE Digits(_)
Digits(n) == IF n < 10 THEN <<48 + n>> ELSE Append(Digits(n \div 10), 48 + (n % 10))

\* fmt.Sprintf for formats of plain bytes and the verbs %d and %v, over ints
\* that are not negative: the bytes of f from i on, with the operands from k
\* on.  A verb without operand prints as %!d(MISSING).
RECURSIVE Sprintf(_, _, _, _)
Sprintf(f, vals, i, k) ==
    IF i > Len(f) THEN <<>>
    ELSE IF f[i] = 37 /\ i < Len(f) /\ f[i + 1] \in {100, 118}
    THEN (IF k > Len(vals) THEN <<37, 33, f[i + 1], 40, 77, 73, 83, 83, 73, 78, 71, 41>>
          ELSE Digits(vals[k].raw)) \o Sprintf(f, vals, i + 2, k + 1)
    ELSE <<f[i]>> \o Sprintf(f, vals, i + 1, k)

\* rand.Int63n(n) and rand.Intn(n): a panic unless n > 0
Int63n(n, dice) == IF n <= 0 THEN Panic ELSE GoInt(dice % n)
\* rand.Float64(): a float64 in [0, 1)
Float64(dice) == LET x == MakeFloat(dice, MaxDice + 1) IN GoFloat(x.num, x.den)

\* The callables an embedder registers with AddBuiltin: each ignores its
\* arguments and returns a String naming it.
Embedded == {"embedA", "embedB"}
EmbeddedResult(f) == MakeString(IF f = "embedA" THEN <<65>> ELSE <<66>>)

RECURSIVE GetVar(_, _, _)
RECURSIVE Get(_, _, _)
RECURSIVE Eval(_, _, _)
RECURSIVE EvalBody(_, _, _, _, _)
RECURSIVE BindParams(_, _, _, _, _, _)
RECURSIVE CallLambda(_, _, _, _)
RECURSIVE IntFold(_, _, _, _, _, _)
RECURSIVE FloatFold(_, _, _, _, _, _)
RECURSIVE callop(_, _, _, _)
RECURSIVE CondFold(_, _, _, _, _, _)
RECURSIVE callcond(_, _, _, _)
RECURSIVE SetqLoop(_, _, _, _, _)
RECURSIVE OrLoop(_, _, _, _)
RECURSIVE AndLoop(_, _, _, _)
RECURSIVE IfLoop(_, _, _)
RECURSIVE WhileLoop(_, _, _, _, _)
RECURSIVE LetLocals(_, _, _, _)
RECURSIVE GetList(_, _, _, _, _)
RECURSIVE GetValues(_, _, _, _, _)
RECURSIVE CallBuiltin(_, _, _, _)

\* a lookup that does not leave the frame it is called on
GetVarLocal(h, e, name) ==
    IF name \in DOMAIN h[e].vars THEN h[e].vars[name] ELSE Nil

\* Env.Get on a name: the first frame of the chain that has it, else Nil
GetVar(h, e, name) ==
    IF name \in DOMAIN h[e].vars THEN h[e].vars[name]
    ELSE IF h[e].next # 0 THEN GetVar(h, h[e].next, name)
    ELSE Nil

\* Env.Get: resolve a name, evaluate anything else
Get(s, e, o) ==
    LET n == getname(o)
        s1 == Note(s, [k |-> "Get", e |-> e, o |-> o])
    IN IF n.err # GoNil THEN Eval(s1, e, o)
       ELSE R(GetVar(s1.heap, e, n.name), s1)

\* the loop "for _, v := range body { ret = Eval(env, v) }"
EvalBody(s, e, body, i, last) ==
    IF i > Len(body) THEN R(last, s)
    ELSE LET r == Eval(s, e, body[i])
         IN IF IsAbort(r.v) THEN r ELSE EvalBody(r.s, e, body, i + 1, r.v)

\* only the parameters that have an argument are bound
BindParamsGiven(s, l, lenv, e, args, i) ==
    IF i > Len(l.args) \/ i > Len(args) THEN R(GoNil, s)
    ELSE LET g == Get(s, e, args[i])
         IN IF IsAbort(g.v) THEN g
            ELSE LET p1 == PutLocal(g.s, lenv, l.args[i], g.v)
                     p2 == PutLocal(p1.s, lenv, l.args[i], p1.v)
                 IN BindParams(p2.s, l, lenv, e, args, i + 1)

BindParams(s, l, lenv, e, args, i) ==
    IF i > Len(l.args) THEN R(GoNil, s)
    ELSE IF i <= Len(args)
         THEN LET g == Get(s, e, args[i])
              IN IF IsAbort(g.v) THEN g
                 ELSE LET p1 == PutLocal(g.s, lenv, l.args[i], g.v)
                          p2 == PutLocal(p1.s, lenv, l.args[i], p1.v)
                      IN BindParams(p2.s, l, lenv, e, args, i + 1)
         ELSE BindParams(PutLocal(s, lenv, l.args[i], GoNil).s, l, lenv, e, args, i + 1)

\* a call whose frame has no parent
CallLambdaNoParent(s, l, env, args) ==
    IF s.fuel = 0 THEN R(Diverge, s)
    ELSE LET n == NewEnv([s EXCEPT !.fuel = @ - 1], 0)
             b == BindParams(n.s, l, n.e, env, args, 1)
         IN IF IsAbort(b.v) THEN b
            ELSE EvalBody(b.s, n.e, l.body, 1, GoNil)

CallLambda(s, l, env, args) ==
    IF s.fuel = 0 THEN R(Diverge, s)
    ELSE LET n == NewEnv([s EXCEPT !.fuel = @ - 1], env)
             b == BindParams(n.s, l, n.e, env, args, 1)
         IN IF IsAbort(b.v) THEN b
            ELSE EvalBody(b.s, n.e, l.body, 1, GoNil)

IntFold(s, o, e, args, i, v) ==
    IF i > Len(args) THEN R(MakeInt(v), s)
    ELSE LET a == Get(s, e, args[i])
         IN IF IsAbort(a.v) THEN a
            ELSE IF ~CanInt(a.v) THEN R(invalidType(a.v), a.s)
            ELSE IF o \in {"/", "%"} /\ IntOf(a.v) = 0 THEN R(Panic, a.s)
            ELSE IntFold(a.s, o, e, args, i + 1, IntApply(o, v, IntOf(a.v)))

FloatFold(s, o, e, args, i, v) ==
    IF i > Len(args) THEN R(v, s)
    ELSE LET a == Get(s, e, args[i])
         IN IF IsAbort(a.v) THEN a
            ELSE IF ~CanFloat(a.v) THEN R(invalidType(a.v), a.s)
            ELSE IF o = "%" /\ IntOf(Float(a.v)) = 0 THEN R(Panic, a.s)
            ELSE FloatFold(a.s, o, e, args, i + 1, FloatApply(o, v, Float(a.v)))

callop(s, o, env, args) ==
    IF Len(args) = 0
    THEN (IF o.op = "+" THEN R(GoInt(0), s) ELSE R(ErrMissing, s))
    ELSE LET first == Get(s, env, args[1])
         IN CASE IsAbort(first.v) -> first
              [] first.v.t = "Integer" -> IntFold(first.s, o.op, env, args, 2, first.v.i)
              [] first.v.t = "Float" -> FloatFold(first.s, o.op, env, args, 2, first.v)
              [] OTHER -> R(invalidType(first.v), first.s)

\* a chain that compares every operand with the first one
CondFoldFirst(s, o, e, args, i, c1) ==
    IF i > Len(args) THEN R(True, s)
    ELSE LET c2 == Get(s, e, args[i])
         IN IF IsAbort(c2.v) THEN c2
            ELSE IF ~Compare(o, c1, c2.v) THEN R(Nil, c2.s)
            ELSE IF ~CanCompare(c2.v) THEN R(True, c2.s)
            ELSE CondFold(c2.s, o, e, args, i + 1, c1)

CondFold(s, o, e, args, i, c1) ==
    IF i > Len(args) THEN R(True, s)
    ELSE LET c2 == Get(s, e, args[i])
         IN IF IsAbort(c2.v) THEN c2
            ELSE IF ~Compare(o, c1, c2.v) THEN R(Nil, c2.s)
            ELSE IF ~CanCompare(c2.v) THEN R(True, c2.s)
            ELSE CondFold(c2.s, o, e, args, i + 1, c2.v)

callcond(s, o, env, args) ==
    IF Len(args) = 0 THEN R(True, s)
    ELSE LET c1 == Get(s, env, args[1])
         IN IF IsAbort(c1.v) THEN c1
            ELSE IF ~CanCompare(c1.v) THEN R(True, c1.s)
            ELSE CondFold(c1.s, o.cond, env, args, 2, c1.v)

\* a setq that assigns every name in the frame it is called on
SetqLoopLocal(s, e, args, i, last) ==
    IF i > Len(args) THEN R(last, s)
    ELSE LET value == Get(s, e, args[i + 1])
         IN IF IsAbort(value.v) THEN value
            ELSE LET p == PutLocal(value.s, e, args[i], value.v)
                 IN SetqLoop(p.s, e, args, i + 2, p.v)

SetqLoop(s, e, args, i, last) ==
    IF i > Len(args) THEN R(last, s)
    ELSE LET value == Get(s, e, args[i + 1])
         IN IF IsAbort(value.v) THEN value
            ELSE LET p == Put(value.s, e, args[i], value.v)
                 IN SetqLoop(p.s, e, args, i + 2, p.v)

OrLoop(s, e, args, i) ==
    IF i > Len(args) THEN R(Nil, s)
    ELSE LET v == Get(s, e, args[i])
         IN IF IsAbort(v.v) THEN v
            ELSE IF CanBool(v.v) /\ Bool(v.v) THEN R(True, v.s)
            ELSE OrLoop(v.s, e, args, i + 1)

AndLoop(s, e, args, i) ==
    IF i > Len(args) THEN R(True, s)
    ELSE LET v == Get(s, e, args[i])
         IN IF IsAbort(v.v) THEN v
            ELSE IF CanBool(v.v) /\ ~Bool(v.v) THEN R(Nil, v.s)
            ELSE AndLoop(v.s, e, args, i + 1)

IfLoop(s, e, args) ==
    LET barg == Get(s, e, args[1])
        rest == Tail(args)
    IN IF IsAbort(barg.v) THEN barg
       ELSE IF ~CanBool(barg.v) THEN barg
       ELSE IF Bool(barg.v)
            THEN (IF Len(rest) = 0 THEN barg ELSE Get(barg.s, e, rest[1]))
            ELSE CASE Len(rest) \in {0, 1} -> R(Nil, barg.s)
                   [] Len(rest) = 2 -> Get(barg.s, e, rest[2])
                   [] OTHER -> IfLoop(barg.s, e, Tail(rest))

WhileLoop(s, e, cond, body, last) ==
    LET c == Get(s, e, cond)
    IN IF IsAbort(c.v) THEN c
       ELSE IF ~CanBool(c.v) \/ ~Bool(c.v) THEN R(last, c.s)
       ELSE IF c.s.fuel = 0 THEN R(Diverge, c.s)
       ELSE LET b == EvalBody([c.s EXCEPT !.fuel = @ - 1], e, body, 1, last)
            IN IF IsAbort(b.v) THEN b ELSE WhileLoop(b.s, e, cond, body, b.v)

\* Env.GetList: the values of the items of l from position i on, appended
\* to acc
GetList(s, e, l, i, acc) ==
    IF i > Len(l) THEN R(MakeList(acc), s)
    ELSE LET g == Get(s, e, l[i])
         IN IF IsAbort(g.v) THEN g ELSE GetList(g.s, e, l, i + 1, Append(acc, g.v))

\* a let that declares nothing
LetLocalsSkip(s, e, locals, i) == s

LetLocals(s, e, locals, i) ==
    IF i > Len(locals) THEN s
    ELSE LetLocals(PutLocal(s, e, locals[i], GoNil).s, e, locals, i + 1)

\* The table of built-in methods set up by init(), and the embedder's own
CallBuiltin(f, s, env, args) ==
    CASE f = "quote" ->
           IF Len(args) = 0 THEN R(Nil, s) ELSE R(quote(args[1]), s)
      [] f = "setq" ->
           IF Len(args) = 0 \/ Len(args) % 2 # 0 THEN R(ErrMissing, s)
           ELSE SetqLoop(s, env, args, 1, GoNil)
      [] f = "not" ->
           IF Len(args) = 0 THEN R(True, s)
           ELSE LET v == Get(s, env, args[1])
                IN IF IsAbort(v.v) THEN v
                   ELSE IF CanBool(v.v) THEN R(MakeBool(~Bool(v.v)), v.s)
                   ELSE R(Nil, v.s)
      [] f = "or" -> OrLoop(s, env, args, 1)
      [] f = "and" -> AndLoop(s, env, args, 1)
      [] f = "if" -> IF Len(args) = 0 THEN R(Nil, s) ELSE IfLoop(s, env, args)
      [] f = "while" ->
           IF Len(args) = 0 THEN R(Nil, s)
           ELSE WhileLoop(s, env, args[1], Tail(args), GoNil)
      [] f = "begin" -> EvalBody(s, env, args, 1, GoNil)
      [] f = "let" ->
           IF Len(args) = 0 THEN R(ErrMissing, s)
           ELSE IF args[1].t # "List" THEN R(invalidType(args[1]), s)
           ELSE LET n == NewEnv(s, env)
                IN EvalBody(LetLocals(n.s, n.e, args[1].items, 1), n.e, Tail(args), 1, GoNil)
      [] f = "eval" ->
           IF Len(args) = 0 THEN R(ErrMissing, s)
           ELSE LET e == Get(s, env, args[1])
                IN IF IsAbort(e.v) THEN e ELSE Eval(e.s, env, e.v)
      [] f = "lambda" ->
           IF Len(args) = 0 THEN R(ErrMissing, s)
           ELSE IF args[1].t # "List" THEN R(invalidType(args[1]), s)
           ELSE R(Lambda(args[1].items, Tail(args)), s)
      [] f = "list" -> R(MakeList(args), s)
      [] f = "println" ->
           LET a == GetList(s, env, args, 1, <<>>)
           IN IF IsAbort(a.v) THEN a
              ELSE R(IF Len(a.v.items) > 0 THEN a.v.items[Len(a.v.items)] ELSE Nil,
                     Note(a.s, [k |-> "Println", args |-> a.v.items]))
      [] f = "first" ->
           IF Len(args) = 0 THEN R(ErrMissing, s)
           ELSE LET l == Get(s, env, args[1])
                IN IF IsAbort(l.v) THEN l
                   ELSE IF l.v.t # "List" THEN R(invalidType(args[1]), l.s)
                   ELSE IF Len(l.v.items) = 0 THEN R(Nil, l.s)
                   ELSE R(l.v.items[1], l.s)
      [] f = "rest" ->
           IF Len(args) = 0 THEN R(ErrMissing, s)
           ELSE LET l == Get(s, env, args[1])
                IN IF IsAbort(l.v) THEN l
                   ELSE IF l.v.t # "List" THEN R(invalidType(args[1]), l.s)
                   ELSE IF Len(l.v.items) = 0 THEN R(Nil, l.s)
                   ELSE R(MakeList(Tail(l.v.items)), l.s)
      [] f = "find" ->
           IF Len(args) # 2 THEN R(ErrMissing, s)
           ELSE LET n == Get(s, env, args[1])
                IN IF IsAbort(n.v) THEN n
                   ELSE LET h == Get(n.s, env, args[2])
                        IN CASE IsAbort(h.v) -> h
                             [] h.v.t = "String" /\ n.v.t = "String" ->
                                  LET p == StrIndex(h.v.s, n.v.s)
                                  IN IF p > 0 THEN R(GoInt(p), h.s) ELSE R(Nil, h.s)
                             [] h.v.t = "List" ->
                                  LET p == SliceIndex(h.v.items, n.v, 1)
                                  IN IF p = -2 THEN R(Panic, h.s)
                                     ELSE IF p > 0 THEN R(GoInt(p), h.s) ELSE R(Nil, h.s)
                             [] OTHER -> R(ErrInvalidType, h.s)
      [] f = "contains" ->
           IF Len(args) # 2 THEN R(ErrMissing, s)
           ELSE LET n == Get(s, env, args[1])
                IN IF IsAbort(n.v) THEN n
                   ELSE LET h == Get(n.s, env, args[2])
                        IN CASE IsAbort(h.v) -> h
                             [] h.v.t = "String" /\ n.v.t = "String" ->
                                  R(MakeBool(StrIndex(h.v.s, n.v.s) >= 0), h.s)
                             [] h.v.t = "List" ->
                                  LET p == SliceIndex(h.v.items, n.v, 1)
                                  IN IF p = -2 THEN R(Panic, h.s) ELSE R(MakeBool(p >= 0), h.s)
                             [] OTHER -> R(ErrInvalidType, h.s)
      [] f = "format" ->
           IF Len(args) = 0 THEN R(ErrMissing, s)
           ELSE LET a == GetValues(s, env, Tail(args), 1, <<>>)
                IN IF IsAbort(a.v) THEN a
                   ELSE IF args[1].t # "String" THEN R(invalidType(args[1]), a.s)
                   ELSE R(GoString(Sprintf(args[1].s, a.v.items, 1, 1)), a.s)
      [] f = "rand" ->
           CASE Len(args) = 0 -> R(Float64(s.dice), s)
             [] Len(args) = 1 ->
                  LET v == Get(s, env, args[1])
                  IN IF IsAbort(v.v) THEN v
                     ELSE IF CanInt(v.v) THEN R(Int63n(IntOf(v.v), v.s.dice), v.s)
                     ELSE R(invalidType(v.v), v.s)
             [] OTHER -> R(args[Int63n(Len(args), s.dice).raw + 1], s)
      [] f \in Embedded -> R(EmbeddedResult(f), s)

\* a dispatcher that looks the head up in the environment before the registry
EvalEnvFirst(s0, env, v) ==
    LET s == Note(s0, [k |-> "Eval", e |-> env, o |-> v])
    IN CASE v.t \in {"String", "Integer", "Float", "Boolean"} -> R(v, s)
         [] v.t = "Quoted" -> R(v.q, s)
         [] v.t = "Symbol" -> Get(s, env, v)
         [] v.t = "List" /\ Len(v.items) = 0 -> R(Nil, s)
         [] v.t = "List" /\ Len(v.items) > 0 ->
              LET i == v.items[1]
                  rest == Tail(v.items)
              IN CASE i.t = "Symbol" ->
                        LET g == Get(s, env, i)
                        IN IF g.v.t = "Lambda" THEN CallLambda(g.s, g.v, env, rest)
                           ELSE IF i.name \in DOMAIN builtins
                           THEN CallBuiltin(builtins[i.name],
                                    Note(s, [k |-> "Call", f |-> builtins[i.name], e |-> env, args |-> rest]),
                                    env, rest)
                           ELSE g
                   [] i.t = "Op" -> callop(s, i, env, rest)
                   [] i.t = "Cond" -> callcond(s, i, env, rest)
                   [] OTHER -> R(v, s)
         [] OTHER -> R(v, s)

\* Eval evaluates the object v in the environment env
Eval(s0, env, v) ==
    LET s == Note(s0, [k |-> "Eval", e |-> env, o |-> v])
    IN CASE v.t \in {"String", "Integer", "Float", "Boolean"} -> R(v, s)
         [] v.t = "Quoted" -> R(v.q, s)
         [] v.t = "Symbol" -> Get(s, env, v)
         [] v.t = "List" /\ Len(v.items) = 0 -> R(Nil, s)
         [] v.t = "List" /\ Len(v.items) > 0 ->
              LET i == v.items[1]
                  rest == Tail(v.items)
              IN CASE i.t = "Symbol" ->
                        IF i.name \in DOMAIN builtins
                        THEN CallBuiltin(builtins[i.name],
                                 Note(s, [k |-> "Call", f |-> builtins[i.name], e |-> env, args |-> rest]),
                                 env, rest)
                        ELSE LET g == Get(s, env, i)
                             IN IF g.v.t = "Lambda"
                                THEN CallLambda(g.s, g.v, env, rest)
                                ELSE g
                   [] i.t = "Op" -> callop(s, i, env, rest)
                   [] i.t = "Cond" -> callcond(s, i, env, rest)
                   [] OTHER -> R(v, s)
         [] OTHER -> R(v, s)

(***************************************************************************)
(* The interpreter as a state machine.  heap is the chain of frames the     *)
(* embedder holds (frame 1 is the root made by NewEnv(nil), each further    *)
(* frame was made by NewEnv on the one before); builtins is the registry.   *)
(* op, ret, log and pre record the last call: its arguments, its result,    *)
(* what it evaluated, and the frames before it.  Frames allocated during    *)
(* an evaluation are unreachable once it returns (no value refers to a      *)
(* frame) and are dropped.                                                  *)
(***************************************************************************)
\* Env.GetValues: as GetList, with the Value() of every Object
GetValues(s, e, l, i, acc) ==
    IF i > Len(l) THEN R(GoSlice(acc), s)
    ELSE LET g == Get(s, e, l[i])
         IN IF IsAbort(g.v) THEN g ELSE GetValues(g.s, e, l, i + 1, Append(acc, GoValue(g.v)))

Registered == {"quote", "setq", "not", "or", "and", "if", "while", "begin",
               "let", "eval", "lambda", "list", "println", "first", "rest",
               "find", "contains", "format", "rand"}

\* dice is the number that the generator of math/rand yields to the next
\* draw, out of 0..MaxDice
Machine == [heap |-> heap, log |-> <<>>, fuel |-> MaxFuel, dice |-> 0]
Dice == 0..MaxDice
Rolled(d) == [Machine EXCEPT !.dice = d]
Frames == 1..Len(heap)

Init ==
    /\ heap = <<[vars |-> NoVars, next |-> 0]>>
    /\ builtins = [n \in Registered |-> n]
    /\ op = [k |-> "init"]
    /\ ret = GoNil
    /\ log = <<>>
    /\ pre = heap
    /\ mem = <<>>

Finish(o, r) ==
    /\ heap' = SubSeq(r.s.heap, 1, Len(heap))
    /\ op' = o
    /\ ret' = r.v
    /\ log' = r.s.log
    /\ pre' = heap
    /\ UNCHANGED <<builtins, mem>>

\* the embedder makes a frame below the innermost one
NewEnvCall ==
    /\ Len(heap) < MaxDepth
    /\ heap' = NewEnv(Machine, Len(heap)).s.heap
    /\ op' = [k |-> "NewEnv"]
    /\ ret' = GoNil
    /\ log' = <<>>
    /\ pre' = heap
    /\ UNCHANGED <<builtins, mem>>

PutLocalCall(e, o, v) == Finish([k |-> "PutLocal", e |-> e, o |-> o, v |-> v], PutLocal(Machine, e, o, v))

PutCall(e, o, v) == Finish([k |-> "Put", e |-> e, o |-> o, v |-> v], Put(Machine, e, o, v))

GetCall(e, o) == Finish([k |-> "Get", e |-> e, o |-> o], Get(Machine, e, o))

EvalCall(e, v) == Finish([k |-> "Eval", e |-> e, o |-> v], Eval(Machine, e, v))

AddBuiltin(name, value) ==
    /\ builtins' = (name :> value) @@ builtins
    /\ op' = [k |-> "AddBuiltin", name |-> name, value |-> value]
    /\ ret' = GoNil
    /\ log' = <<>>
    /\ pre' = heap
    /\ UNCHANGED <<heap, mem>>

(***************************************************************************)
(* Specification Spec: the environment under the calls of its interface    *)
(***************************************************************************)
EnvObjs == {Symbol("x"), Symbol("y"), MakeInt(1)}
EnvVals == {MakeInt(1), MakeInt(2)}

Next ==
    \/ NewEnvCall
    \/ \E e \in Frames, o \in EnvObjs, v \in EnvVals : PutLocalCall(e, o, v)
    \/ \E e \in Frames, o \in EnvObjs, v \in EnvVals : PutCall(e, o, v)
    \/ \E e \in Frames, o \in EnvObjs : GetCall(e, o)

Spec == Init /\ [][Next]_vars

\* The frames of the chain of e, innermost first, and the root of the chain
RECURSIVE ChainOf(_, _)
ChainOf(h, e) == IF h[e].next = 0 THEN <<e>> ELSE <<e>> \o ChainOf(h, h[e].next)
RootOf(h, e) == ChainOf(h, e)[Len(ChainOf(h, e))]
Binders(h, e, name) == {j \in 1..Len(ChainOf(h, e)) : name \in DOMAIN h[ChainOf(h, e)[j]].vars}
\* the frame of the chain of e nearest to e that binds name (0 if none does)
Nearest(h, e, name) ==
    IF Binders(h, e, name) = {} THEN 0
    ELSE ChainOf(h, e)[CHOOSE j \in Binders(h, e, name) : \A k \in Binders(h, e, name) : j <= k]

AllNames == UNION {DOMAIN heap[i].vars : i \in Frames} \cup UNION {DOMAIN pre[i].vars : i \in 1..Len(pre)}

\* the frames are those of pre, except that frame f binds name to v
OnlyWrites(f, name, v) ==
    /\ Len(heap) = Len(pre)
    /\ \A i \in Frames :
         /\ heap[i].next = pre[i].next
         /\ DOMAIN heap[i].vars = DOMAIN pre[i].vars \cup (IF i = f THEN {name} ELSE {})
         /\ \A n \in DOMAIN heap[i].vars :
              heap[i].vars[n] = (IF i = f /\ n = name THEN v ELSE pre[i].vars[n])

PutTarget(h, e, name) ==
    IF Nearest(h, e, name) # 0 THEN Nearest(h, e, name) ELSE RootOf(h, e)

\* C2: Env.Put(name, v) writes exactly one binding: in the nearest frame of
\* the chain (the current one first) that already has the name, otherwise in
\* the root frame; it creates no name in a non-root frame and changes nothing
\* else.
C2_PutWritesNearestOrRoot ==
    (op.k = "Put" /\ op.o.t = "Symbol") =>
        /\ OnlyWrites(PutTarget(pre, op.e, op.o.name), op.o.name, op.v)
        /\ ret = op.v
        /\ \A i \in Frames : (pre[i].next # 0 /\ op.o.name \notin DOMAIN pre[i].vars)
                               => op.o.name \notin DOMAIN heap[i].vars

\* a Put that found the name in a strict ancestor, and one that created it in
\* the root from two frames below
C2_Witness ==
    /\ op.k = "Put" /\ op.o.t = "Symbol" /\ op.e = 3
    /\ op.o.name \notin DOMAIN pre[3].vars
    /\ op.o.name \in DOMAIN pre[2].vars
    /\ op.o.name \in DOMAIN pre[1].vars
    /\ pre[2].vars[op.o.name] # op.v
    /\ heap[2].vars[op.o.name] = op.v

C2_WitnessRoot ==
    /\ op.k = "Put" /\ op.o.t = "Symbol" /\ op.e = 3
    /\ \A i \in 1..3 : op.o.name \notin DOMAIN pre[i].vars
    /\ op.o.name \in DOMAIN heap[1].vars

\* C4: Env.Get(name) returns the value bound by the first frame of the chain
\* that binds the name, Nil when no frame does, and changes no frame.
C4_GetFirstBinding ==
    (op.k = "Get" /\ op.o.t = "Symbol") =>
        /\ heap = pre
        /\ LET f == Nearest(pre, op.e, op.o.name)
           IN IF f = 0 THEN ret = Nil ELSE ret = pre[f].vars[op.o.name]

\* a Get from the innermost frame of a name bound differently in two of its
\* ancestors and not in the frame itself: the nearer binding is returned
C4_Witness ==
    /\ op.k = "Get" /\ op.o.t = "Symbol" /\ op.e = 3
    /\ op.o.name \notin DOMAIN pre[3].vars
    /\ op.o.name \in DOMAIN pre[2].vars
    /\ op.o.name \in DOMAIN pre[1].vars
    /\ pre[2].vars[op.o.name] # pre[1].vars[op.o.name]
    /\ ret = pre[2].vars[op.o.name]

C4_WitnessUnbound ==
    /\ op.k = "Get" /\ op.o.t = "Symbol" /\ op.e = 3
    /\ \A i \in 1..3 : op.o.name \notin DOMAIN pre[i].vars
    /\ \E i \in 1..3 : DOMAIN pre[i].vars # {}
    /\ ret = Nil

(***************************************************************************)
(* Specification SpecScope: forms that bind, assign and call, evaluated in *)
(* any frame of a chain built with NewEnv and PutLocal                      *)
(***************************************************************************)
ScopeDepth == 2

\* (setq f (let (x) (setq x 10) (lambda () x)))
DefF == MakeList(<<Symbol("setq"), Symbol("f"),
            MakeList(<<Symbol("let"), MakeList(<<Symbol("x")>>),
                MakeList(<<Symbol("setq"), Symbol("x"), MakeInt(10)>>),
                MakeList(<<Symbol("lambda"), MakeList(<<>>), Symbol("x")>>)>>)>>)
\* (f)
CallF == MakeList(<<Symbol("f")>>)
\* (let (x) (setq x 1) (f))
LetCallF == MakeList(<<Symbol("let"), MakeList(<<Symbol("x")>>),
                MakeList(<<Symbol("setq"), Symbol("x"), MakeInt(1)>>), CallF>>)
\* (setq x 2)
SetX == MakeList(<<Symbol("setq"), Symbol("x"), MakeInt(2)>>)
\* (let (x) (setq x 1) (setq y 2))
LetXY == MakeList(<<Symbol("let"), MakeList(<<Symbol("x")>>),
                MakeList(<<Symbol("setq"), Symbol("x"), MakeInt(1)>>),
                MakeList(<<Symbol("setq"), Symbol("y"), MakeInt(2)>>)>>)
\* (let (y) (let (x) (setq x 2) (setq y 1)) y)
LetNested == MakeList(<<Symbol("let"), MakeList(<<Symbol("y")>>),
                MakeList(<<Symbol("let"), MakeList(<<Symbol("x")>>),
                    MakeList(<<Symbol("setq"), Symbol("x"), MakeInt(2)>>),
                    MakeList(<<Symbol("setq"), Symbol("y"), MakeInt(1)>>)>>),
                Symbol("y")>>)

ScopeForms == {DefF, CallF, LetCallF, SetX, LetXY, LetNested}
ScopeFrames == 1..Len(heap)

NextScope ==
    \/ Len(heap) < ScopeDepth /\ NewEnvCall
    \/ \E e \in ScopeFrames, n \in {"x", "y"}, v \in EnvVals : PutLocalCall(e, Symbol(n), v)
    \/ \E e \in ScopeFrames, v \in ScopeForms : EvalCall(e, v)

SpecScope == Init /\ [][NextScope]_vars

\* the Lambda that DefF binds to f
LambdaX == Lambda(<<>>, <<Symbol("x")>>)
FDefined == "f" \in DOMAIN pre[1].vars /\ pre[1].vars["f"] = LambdaX
Logged(ev) == \E j \in DOMAIN log : log[j] = ev
\* what name resolves to from frame e of the frames h
Visible(h, e, name) ==
    IF Nearest(h, e, name) = 0 THEN Nil ELSE h[Nearest(h, e, name)].vars[name]

LambdaG == Lambda(<<Symbol("a"), Symbol("b")>>,
                  <<MakeList(<<Symbol("setq"), Symbol("x"), Symbol("a")>>), Symbol("b")>>)
DefG == MakeList(<<Symbol("setq"), Symbol("g"),
            MakeList(<<Symbol("lambda"), MakeList(<<Symbol("a"), Symbol("b")>>),
                MakeList(<<Symbol("setq"), Symbol("x"), Symbol("a")>>), Symbol("b")>>)>>)
SetY1 == MakeList(<<Symbol("setq"), Symbol("y"), MakeInt(1)>>)
SetY2 == MakeList(<<Symbol("setq"), Symbol("y"), MakeInt(2)>>)
\* (g), (g 1), (g 1 2), (g (setq y 1) y), (g y 2 (setq y 2))
CallG0 == MakeList(<<Symbol("g")>>)
CallG1 == MakeList(<<Symbol("g"), MakeInt(1)>>)
CallG2 == MakeList(<<Symbol("g"), MakeInt(1), MakeInt(2)>>)
CallGSet == MakeList(<<Symbol("g"), SetY1, Symbol("y")>>)
CallGExtra == MakeList(<<Symbol("g"), Symbol("y"), MakeInt(2), SetY2>>)
CallsG == {CallG0, CallG1, CallG2, CallGSet, CallGExtra}

NextCall ==
    \/ Len(heap) < ScopeDepth /\ NewEnvCall
    \/ \E e \in ScopeFrames, v \in EnvVals : PutLocalCall(e, Symbol("y"), v)
    \/ \E e \in ScopeFrames, v \in {DefG} \cup CallsG : EvalCall(e, v)

SpecCall == Init /\ [][NextCall]_vars

GDefined == "g" \in DOMAIN pre[1].vars /\ pre[1].vars["g"] = LambdaG
Min(a, b) == IF a < b THEN a ELSE b
Positions(ev) == {j \in DOMAIN log : log[j] = ev}

\* the value of the i-th argument form of the call c, evaluated in the
\* caller's frame after the arguments before it
ArgValue(c, i) ==
    CASE c.items[i + 1].t = "Integer" -> c.items[i + 1]
      [] c = CallGSet -> MakeInt(1)
      [] c = CallGExtra /\ i = 1 -> Visible(pre, op.e, "y")

\* what the parameter i of the call c is bound to, an omitted argument being
\* bound to the value missing
ParamValue(c, i, missing) == IF i < Len(c.items) THEN ArgValue(c, i) ELSE missing

CallBinds(missing) ==
    (op.k = "Eval" /\ op.o \in CallsG /\ GDefined) =>
        LET c == op.o
            n == Min(Len(c.items) - 1, 2)
            body == [k |-> "Eval", e |-> Len(pre) + 1, o |-> LambdaG.body[1]]
            arg(i) == [k |-> "Get", e |-> op.e, o |-> c.items[i + 1]]
        IN /\ \A i \in 1..n : Cardinality(Positions(arg(i))) = 1
           /\ Cardinality(Positions(body)) = 1
           /\ \A i \in 1..n : \A j \in Positions(arg(i)) : \A b \in Positions(body) : j < b
           /\ n = 2 => \A j1 \in Positions(arg(1)) : \A j2 \in Positions(arg(2)) : j1 < j2
           /\ Visible(heap, op.e, "x") = ParamValue(c, 1, missing)
           /\ ret = ParamValue(c, 2, missing)

\* C6: each parameter is bound, in order, to the value of the argument form
\* at its position, evaluated once, left to right, in the caller's frame and
\* before the body; a parameter without an argument is bound to Nil, and the
\* call returns the value of the last body form.
C6_ArgumentBinding == CallBinds(Nil)

(***************************************************************************)
(* Specification SpecReg: the registry under AddBuiltin, and forms whose   *)
(* head names a registered callable                                         *)
(***************************************************************************)
\* (setq f (lambda (a) a)), (f (setq x 1)), (quote (setq x 1)), (x)
DefId == MakeList(<<Symbol("setq"), Symbol("f"),
            MakeList(<<Symbol("lambda"), MakeList(<<Symbol("a")>>), Symbol("a")>>)>>)
SetX1 == MakeList(<<Symbol("setq"), Symbol("x"), MakeInt(1)>>)
CallFSet == MakeList(<<Symbol("f"), SetX1>>)
QuoteSet == MakeList(<<Symbol("quote"), SetX1>>)
RegForms == {DefId, CallFSet, QuoteSet, SetX1}

NextReg ==
    \/ \E name \in {"f", "quote"}, value \in Embedded : AddBuiltin(name, value)
    \/ \E v \in RegForms : EvalCall(1, v)

SpecReg == Init /\ [][NextReg]_vars

HeadRegistered(o, reg) ==
    /\ o.t = "List" /\ Len(o.items) > 0
    /\ o.items[1].t = "Symbol" /\ o.items[1].name \in DOMAIN reg

\* C5: a form whose head is a registered name invokes the registered callable
\* with the remaining items as they stand and with the current environment;
\* the dispatcher evaluates no operand, a variable of the same name is not
\* consulted, and the callable invoked is the one registered last.
C5_RegistryDispatch ==
    [][ /\ (op'.k = "AddBuiltin") =>
              /\ op'.name \in DOMAIN builtins' /\ builtins'[op'.name] = op'.value
              /\ \A n \in DOMAIN builtins \ {op'.name} : n \in DOMAIN builtins' /\ builtins'[n] = builtins[n]
        /\ (op'.k = "Eval") => builtins' = builtins
        /\ (op'.k = "Eval" /\ HeadRegistered(op'.o, builtins)) =>
              LET f == builtins[op'.o.items[1].name]
              IN /\ Len(log') >= 2
                 /\ log'[1] = [k |-> "Eval", e |-> op'.e, o |-> op'.o]
                 /\ log'[2] = [k |-> "Call", f |-> f, e |-> op'.e, args |-> Tail(op'.o.items)]
                 /\ f \in Embedded => (ret' = EmbeddedResult(f) /\ Len(log') = 2 /\ heap' = heap)
                 /\ f = "quote" => (ret' = Quoted(SetX1) /\ Len(log') = 2 /\ heap' = heap)
      ]_vars

\* (f (setq x 1)) evaluated while f is both a variable bound to a Lambda and a
\* registered name: the registered callable ran and x was not assigned
C5_Witness ==
    /\ op.k = "Eval" /\ op.o = CallFSet
    /\ "f" \in DOMAIN builtins /\ builtins["f"] = "embedB"
    /\ "f" \in DOMAIN pre[1].vars /\ pre[1].vars["f"].t = "Lambda"
    /\ ret = EmbeddedResult("embedB")
    /\ "x" \notin DOMAIN heap[1].vars

(***************************************************************************)
(* Specification SpecOp: arithmetic forms (op a1 ... an) over a small set   *)
(* of operands, evaluated at the root                                      *)
(***************************************************************************)
MaxArgs == 3

Ops == {"+", "-", "*", "/", "%"}
\* (+), whose value is the Go int 0
PlusEmpty == MakeList(<<Op("+")>>)
\* -7, 2, 3, 0, 2.5, -3.5, "a", the unbound symbol u, (+)
OpAtoms == {MakeInt(-7), MakeInt(2), MakeInt(3), MakeInt(0), MakeFloat(5, 2), MakeFloat(-7, 2),
            MakeString(<<97>>), Symbol("u"), PlusEmpty}

SeqsUpTo(S, n) == UNION {[1..k -> S] : k \in 0..n}
Form(head, args) == MakeList(<<head>> \o args)

\* (+ 1 2 3), (- 10 1 2), (/ 100 2 5), (+ (+) 1), (= (+) 0)
OpExamples == {Form(Op("+"), <<MakeInt(1), MakeInt(2), MakeInt(3)>>),
               Form(Op("-"), <<MakeInt(10), MakeInt(1), MakeInt(2)>>),
               Form(Op("/"), <<MakeInt(100), MakeInt(2), MakeInt(5)>>),
               Form(Op("+"), <<PlusEmpty, MakeInt(1)>>),
               Form(Cond("="), <<PlusEmpty, MakeInt(0)>>)}
OpForms == {Form(Op(o), args) : o \in Ops, args \in SeqsUpTo(OpAtoms, MaxArgs)} \cup OpExamples

\* a form has been read and waits to be evaluated in a fresh root frame
Read(forms) ==
    /\ heap = <<[vars |-> NoVars, next |-> 0]>>
    /\ builtins = [n \in Registered |-> n]
    /\ op \in {[k |-> "Read", o |-> v] : v \in forms}
    /\ ret = GoNil
    /\ log = <<>>
    /\ pre = heap
    /\ mem = <<>>

EvalRead == op.k = "Read" /\ EvalCall(1, op.o)

InitOp == Read(OpForms)
NextOp == EvalRead

SpecOp == InitOp /\ [][NextOp]_vars

\* the operands of the form last evaluated and, in a root frame without
\* variables, their values
Operands == Tail(op.o.items)
OperandValue(a) ==
    CASE a.t = "Symbol" -> Nil
      [] a = PlusEmpty -> GoInt(0)
      [] OTHER -> a
Value(i) == OperandValue(Operands[i])
\* the operands evaluated, in the order of their evaluation
GetEvents == SelectSeq(log, LAMBDA ev : ev.k = "Get")
Evaluated == [j \in 1..Len(GetEvents) |-> GetEvents[j].o]
IsOpForm == op.k = "Eval" /\ op.o.t = "List" /\ Len(op.o.items) > 0 /\ op.o.items[1].t = "Op"
Numeric(v) == v.t \in {"Integer", "Float"}
First(S) == CHOOSE j \in S : \A k \in S : j <= k

\* C7 as stated: the result has the type of the first operand's value, and a
\* later operand whose value has another type yields invalid-parameter-type
\* and halts the fold; a first operand that is no number yields
\* invalid-parameter-type.  (Stated of the forms that yield a value.)
C7_OtherTypeRejected ==
    (IsOpForm /\ Len(Operands) >= 1 /\ ret # Panic) =>
        LET n == Len(Operands)
            other == {j \in 2..n : Value(j).t # Value(1).t}
        IN IF ~Numeric(Value(1)) THEN ret = ErrInvalidType
           ELSE IF other = {} THEN ret.t = Value(1).t
           ELSE ret = ErrInvalidType /\ Evaluated = SubSeq(Operands, 1, First(other))

\* the operand j stops a fold whose first operand has type ty: it is no
\* number, or it is a zero divisor
NotNumber(j) == ~Numeric(Value(j))
ZeroDivisor(ty, o, j) ==
    /\ Numeric(Value(j)) /\ IntOf(Value(j)) = 0
    /\ (ty = "Integer" /\ o \in {"/", "%"}) \/ (ty = "Float" /\ o = "%")

\* C7 amended: the result has the type of the first operand's value; a later
\* operand that is neither Integer nor Float yields invalid-parameter-type and
\* halts the fold, while an Integer or Float operand of the other numeric type
\* is converted to the type of the first (a Float truncated toward zero, an
\* Integer widened); a first operand that is no number yields
\* invalid-parameter-type.  A zero divisor of Integer / and %, or of Float %,
\* panics and halts the fold as well.
C7_AccumulatorType ==
    /\ (IsOpForm /\ Len(Operands) >= 1) =>
          LET n == Len(Operands)
              o == op.o.items[1].op
              stop == {j \in 2..n : NotNumber(j) \/ ZeroDivisor(Value(1).t, o, j)}
          IN /\ heap = pre
             /\ IF NotNumber(1) THEN ret = ErrInvalidType /\ Evaluated = SubSeq(Operands, 1, 1)
                ELSE IF stop = {} THEN ret.t = Value(1).t /\ Evaluated = Operands
                ELSE /\ Evaluated = SubSeq(Operands, 1, First(stop))
                     /\ ret = (IF NotNumber(First(stop)) THEN ErrInvalidType ELSE Panic)
    /\ (op.k = "Eval" /\ op.o = Form(Op("+"), <<MakeInt(2), MakeFloat(5, 2)>>)) => ret = MakeInt(4)
    /\ (op.k = "Eval" /\ op.o = Form(Op("*"), <<MakeInt(3), MakeFloat(-7, 2)>>)) => ret = MakeInt(-9)
    /\ (op.k = "Eval" /\ op.o = Form(Op("+"), <<MakeFloat(5, 2), MakeInt(2)>>)) => ret = MakeFloat(9, 2)

\* an Integer fold that converted a Float operand and then met a String
C7_Witness ==
    /\ op.k = "Eval"
    /\ op.o = Form(Op("-"), <<MakeInt(2), MakeFloat(5, 2), MakeString(<<97>>)>>)
    /\ ret = ErrInvalidType
    /\ Len(Evaluated) = 3

\* a Float fold over an Integer operand
C7_WitnessFloat ==
    /\ op.k = "Eval"
    /\ op.o = Form(Op("*"), <<MakeFloat(5, 2), MakeInt(2), MakeInt(3)>>)
    /\ ret = MakeFloat(15, 1)

\* C8: (+) yields the Integer 0, a value that is Integer 0 wherever an
\* Integer is accepted: (+ (+) 1) is 1 and (= (+) 0) is True; (-), (*), (/)
\* and (%) yield missing-parameter.
C8_EmptyOperands ==
    /\ (op.k = "Eval" /\ op.o = PlusEmpty) => ret = MakeInt(0)
    /\ (op.k = "Eval" /\ op.o = Form(Op("+"), <<PlusEmpty, MakeInt(1)>>)) => ret = MakeInt(1)
    /\ (op.k = "Eval" /\ op.o = Form(Cond("="), <<PlusEmpty, MakeInt(0)>>)) => ret = True
    /\ (IsOpForm /\ Len(Operands) = 0 /\ op.o # PlusEmpty) => ret = ErrMissing

\* the quotient truncated toward zero, and the remainder that goes with it
Quotient(a, b) ==
    CHOOSE q \in -Abs(a)..Abs(a) :
        /\ Abs(q) * Abs(b) <= Abs(a) /\ Abs(a) < (Abs(q) + 1) * Abs(b)
        /\ q # 0 => Sign(q) = Sign(a) * Sign(b)
Apply(o, a, b) ==
    CASE o = "+" -> a + b
      [] o = "-" -> a - b
      [] o = "*" -> a * b
      [] o = "/" -> Quotient(a, b)
      [] o = "%" -> a - b * Quotient(a, b)
RECURSIVE LeftFold(_, _, _)
LeftFold(o, xs, n) == IF n = 1 THEN xs[1].i ELSE Apply(o, LeftFold(o, xs, n - 1), xs[n].i)

IntegerForm ==
    /\ IsOpForm /\ Len(Operands) >= 1
    /\ \A j \in 1..Len(Operands) : Operands[j].t = "Integer"
    /\ op.o.items[1].op \in {"/", "%"} => \A j \in 2..Len(Operands) : Operands[j].i # 0

\* C9: over Integer operands with non-zero divisors, (op a1 ... an) is the
\* left fold ((a1 op a2) op a3) ..., every operand being evaluated once, left
\* to right; / truncates toward zero and % has the sign of the dividend.
C9_LeftFold ==
    /\ IntegerForm =>
          /\ ret = MakeInt(LeftFold(op.o.items[1].op, Operands, Len(Operands)))
          /\ Evaluated = Operands
    /\ (op.k = "Eval" /\ op.o = Form(Op("+"), <<MakeInt(1), MakeInt(2), MakeInt(3)>>)) => ret = MakeInt(6)
    /\ (op.k = "Eval" /\ op.o = Form(Op("-"), <<MakeInt(10), MakeInt(1), MakeInt(2)>>)) => ret = MakeInt(7)
    /\ (op.k = "Eval" /\ op.o = Form(Op("/"), <<MakeInt(100), MakeInt(2), MakeInt(5)>>)) => ret = MakeInt(10)
    /\ (op.k = "Eval" /\ op.o = Form(Op("%"), <<MakeInt(-7), MakeInt(2)>>)) => ret = MakeInt(-1)
    /\ (op.k = "Eval" /\ op.o = Form(Op("/"), <<MakeInt(-7), MakeInt(2)>>)) => ret = MakeInt(-3)

\* a three-operand division of a negative dividend
C9_Witness ==
    /\ IntegerForm
    /\ op.o = Form(Op("/"), <<MakeInt(-7), MakeInt(2), MakeInt(3)>>)
    /\ ret = MakeInt(-1)
    /\ Len(Evaluated) = 3

(***************************************************************************)
(* Specification SpecCond: comparator forms (cmp a1 ... an)                 *)
(***************************************************************************)
Conds == {"=", "<", "<=", ">", ">="}
\* 1, 2, 3, 1.0, "a", nil, (+)
CondAtoms == {MakeInt(1), MakeInt(2), MakeInt(3), MakeFloat(1, 1), MakeString(<<97>>), Nil, PlusEmpty}
\* (= nil (+) 1 2)
CondExamples == {Form(Cond("="), <<Nil, PlusEmpty, MakeInt(1), MakeInt(2)>>)}
CondForms == {Form(Cond(c), args) : c \in Conds, args \in SeqsUpTo(CondAtoms, MaxArgs)} \cup CondExamples

InitCond == Read(CondForms)
NextCond == EvalRead

SpecCond == InitCond /\ [][NextCond]_vars

IsCondForm == op.k = "Eval" /\ op.o.t = "List" /\ Len(op.o.items) > 0 /\ op.o.items[1].t = "Cond"

\* C10 as stated: True iff every adjacent pair satisfies cmp, Nil otherwise,
\* no operand being evaluated after the first violating pair; True with no
\* operand or when the first operand's value does not support comparison.
C10_EveryAdjacentPair ==
    IsCondForm =>
        LET n == Len(Operands)
            c == op.o.items[1].cond
            bad == {i \in 1..(n - 1) : CanCompare(Value(i)) /\ ~Compare(c, Value(i), Value(i + 1))}
        IN IF n = 0 \/ ~CanCompare(Value(1)) THEN ret = True
           ELSE /\ ret = (IF bad = {} THEN True ELSE Nil)
                /\ bad # {} => Len(Evaluated) <= First(bad) + 1

\* C10 amended: True iff every adjacent pair up to the first operand whose
\* value does not support comparison satisfies cmp, Nil otherwise; the
\* evaluation stops at the first violating pair, or else at the first operand
\* whose value does not support comparison, and the pairs after that operand
\* are not compared.  True with no operand.
C10_ChainUpToNonComparable ==
    /\ IsCondForm =>
          LET n == Len(Operands)
              c == op.o.items[1].cond
              opaque == {i \in 1..n : ~CanCompare(Value(i))}
              m == IF opaque = {} THEN n ELSE First(opaque)
              bad == {i \in 1..(m - 1) : ~Compare(c, Value(i), Value(i + 1))}
          IN /\ heap = pre
             /\ ret = (IF bad = {} THEN True ELSE Nil)
             /\ Evaluated = SubSeq(Operands, 1, IF bad = {} THEN m ELSE First(bad) + 1)
    /\ (op.k = "Eval" /\ op.o = Form(Cond("<"), <<MakeInt(1), MakeInt(2), MakeInt(3)>>)) => ret = True
    /\ (op.k = "Eval" /\ op.o = Form(Cond("<"), <<MakeInt(1), MakeInt(3), MakeInt(2)>>)) => ret = Nil
    /\ (op.k = "Eval" /\ op.o = Form(Cond("="), <<MakeInt(1), MakeFloat(1, 1)>>)) => ret = True
    /\ (op.k = "Eval" /\ op.o = Form(Cond("="), <<MakeString(<<97>>), MakeInt(1)>>)) => ret = Nil

\* a chain whose first pair holds and whose second pair fails, and a chain
\* that stops at an operand without comparison
C10_Witness ==
    /\ IsCondForm
    /\ op.o = Form(Cond("<"), <<MakeInt(1), MakeInt(3), MakeInt(2)>>)
    /\ ret = Nil
    /\ Len(Evaluated) = 3

C10_WitnessOpaque ==
    /\ IsCondForm
    /\ op.o = Form(Cond("="), <<Nil, PlusEmpty, MakeInt(1), MakeInt(2)>>)
    /\ ret = True
    /\ Len(Evaluated) = 2

(***************************************************************************)
(* Specification SpecEq: equality forms (= a b) over values of every       *)
(* variant                                                                 *)
(***************************************************************************)
\* true, nil, 1, 0, 1.0, 1.5, "a", "", 's, '(1)
EqAtoms == {True, Nil, MakeInt(1), MakeInt(0), MakeFloat(1, 1), MakeFloat(3, 2),
            MakeString(<<97>>), MakeString(<<>>),
            Quoted(Symbol("s")), Quoted(MakeList(<<MakeInt(1)>>))}
EqForms == {Form(Cond("="), <<a, b>>) : a, b \in EqAtoms}

InitEq == Read(EqForms)
NextEq == EvalRead

SpecEq == InitEq /\ [][NextEq]_vars

IsEqForm == op.k = "Eval" /\ op.o \in EqForms
\* the value of an operand: a quoted form yields the form, a literal itself
EqValue(a) == IF a.t = "Quoted" THEN a.q ELSE a
Widened(v) == IF v.t = "Integer" THEN MakeFloat(v.i, 1) ELSE v

\* C11: (= a b) is Nil between values of different variants, except between
\* an Integer and a Float in either order, which are equal iff the Integer
\* widened to Float equals the Float; two Booleans are equal iff they have
\* the same truth value; (= 1 1.0) is True, (= 1 1.5) and (= 1.5 1) are Nil.
C11_CrossVariantEquality ==
    /\ IsEqForm =>
          LET a == EqValue(Operands[1])
              b == EqValue(Operands[2])
          IN /\ {a.t, b.t} = {"Integer", "Float"} => ret = MakeBool(FEq(Widened(a), Widened(b)))
             /\ (a.t # b.t /\ {a.t, b.t} # {"Integer", "Float"}) => ret = Nil
             /\ (a.t = "Boolean" /\ b.t = "Boolean") => ret = MakeBool(a.b = b.b)
    /\ (op.k = "Eval" /\ op.o = Form(Cond("="), <<MakeInt(1), MakeFloat(1, 1)>>)) => ret = True
    /\ (op.k = "Eval" /\ op.o = Form(Cond("="), <<MakeInt(1), MakeFloat(3, 2)>>)) => ret = Nil
    /\ (op.k = "Eval" /\ op.o = Form(Cond("="), <<MakeFloat(3, 2), MakeInt(1)>>)) => ret = Nil

(***************************************************************************)
(* Specification SpecIf: forms (if c1 t1 c2 t2 ... [e])                     *)
(***************************************************************************)
MaxIfArgs == 5

\* (list), whose value is the empty List
EmptyList == MakeList(<<Symbol("list")>>)
\* nil, true, 1, 2, 3, (list), 's
IfAtoms == {Nil, True, MakeInt(1), MakeInt(2), MakeInt(3), EmptyList, Quoted(Symbol("s"))}
IfForms == {Form(Symbol("if"), args) : args \in SeqsUpTo(IfAtoms, MaxIfArgs)}

InitIf == Read(IfForms)
NextIf == EvalRead

SpecIf == InitIf /\ [][NextIf]_vars

IsIfForm == op.k = "Eval" /\ op.o \in IfForms
IfValue(a) ==
    CASE a = EmptyList -> MakeList(<<>>)
      [] a.t = "Quoted" -> a.q
      [] OTHER -> a

\* the chain from the cond at position i on: the result and the operands
\* evaluated, by the rules of C12
RECURSIVE IfChain(_, _)
IfChain(a, i) ==
    LET n == Len(a)
        c == IfValue(a[i])
    IN IF i > n THEN [v |-> Nil, ev |-> <<>>]
       ELSE IF ~CanBool(c) THEN [v |-> c, ev |-> <<a[i]>>]
       ELSE IF Bool(c)
            THEN (IF i = n THEN [v |-> c, ev |-> <<a[i]>>]
                  ELSE [v |-> IfValue(a[i + 1]), ev |-> <<a[i], a[i + 1]>>])
       ELSE CASE n = i /\ n = 1 -> [v |-> c, ev |-> <<a[i]>>]
              [] n - i \in {0, 1} -> [v |-> Nil, ev |-> <<a[i]>>]
              [] n - i = 2 -> [v |-> IfValue(a[n]), ev |-> <<a[i], a[n]>>]
              [] OTHER -> LET r == IfChain(a, i + 2)
                          IN [v |-> r.v, ev |-> <<a[i]>> \o r.ev]

\* C12: if is a chained if/elif/else: the conds are evaluated left to right,
\* the result is the value of the then paired with the first true cond and
\* only that then is evaluated; with no true cond it is the value of the
\* trailing else, or Nil without one; a cond whose value is not
\* boolean-coercible is returned as it is; (if) is Nil, (if true 1 2) is 1,
\* (if nil 1 nil 2 3) is 3, (if nil 1) and (if nil 1 nil 2) are Nil, and
\* (if x) returns the value of x.
C12_IfChain ==
    /\ IsIfForm =>
          /\ ret = IfChain(Operands, 1).v
          /\ Evaluated = IfChain(Operands, 1).ev
          /\ heap = pre
    /\ (op.k = "Eval" /\ op.o = Form(Symbol("if"), <<>>)) => ret = Nil
    /\ (op.k = "Eval" /\ op.o = Form(Symbol("if"), <<True, MakeInt(1), MakeInt(2)>>)) => ret = MakeInt(1)
    /\ (op.k = "Eval" /\ op.o = Form(Symbol("if"), <<Nil, MakeInt(1), Nil, MakeInt(2), MakeInt(3)>>))
          => ret = MakeInt(3)
    /\ (op.k = "Eval" /\ op.o = Form(Symbol("if"), <<Nil, MakeInt(1)>>)) => ret = Nil
    /\ (op.k = "Eval" /\ op.o = Form(Symbol("if"), <<Nil, MakeInt(1), Nil, MakeInt(2)>>)) => ret = Nil
    /\ (IsIfForm /\ Len(Operands) = 1) => ret = IfValue(Operands[1])

(***************************************************************************)
(* Specification SpecWhile: while loops over a counter kept in the root     *)
(***************************************************************************)
Range(f) == {f[x] : x \in DOMAIN f}

\* (setq i k)
SetI(k) == Form(Symbol("setq"), <<Symbol("i"), MakeInt(k)>>)
\* (setq i (+ i 1)), (setq j i), (println i), (println 1)
IncI == Form(Symbol("setq"), <<Symbol("i"), Form(Op("+"), <<Symbol("i"), MakeInt(1)>>)>>)
SetJ == Form(Symbol("setq"), <<Symbol("j"), Symbol("i")>>)
PrintI == Form(Symbol("println"), <<Symbol("i")>>)
Print1 == Form(Symbol("println"), <<MakeInt(1)>>)
\* (< i k)
Below(k) == Form(Cond("<"), <<Symbol("i"), MakeInt(k)>>)
While(cond, body) == Form(Symbol("while"), <<cond>> \o body)
\* (while (< i 3) (setq i (+ i 1))), (while (< i 2) (setq j i) (setq i (+ i 1))),
\* (while (< i 3) (setq i (+ i 1)) (println i)), (while nil (println 1)), (while)
Loops == {While(Below(3), <<IncI>>),
          While(Below(2), <<SetJ, IncI>>),
          While(Below(3), <<IncI, PrintI>>),
          While(Nil, <<Print1>>),
          Form(Symbol("while"), <<>>)}
WhileForms == {SetI(k) : k \in 0..3} \cup Loops

NextWhile == \E v \in WhileForms : EvalCall(1, v)

SpecWhile == Init /\ [][NextWhile]_vars

IsWhile == op.k = "Eval" /\ op.o \in Loops /\ Len(Operands) >= 1 /\ ret # Diverge
WhileCond == Operands[1]
WhileBody == Tail(Operands)
\* the evaluations of the cond and of the body forms, in order
IsStep(ev) ==
    \/ ev.k = "Get" /\ ev.o = WhileCond
    \/ ev.k = "Eval" /\ \E j \in 1..Len(WhileBody) : ev.o = WhileBody[j]
WhileTrace == SelectSeq(log, IsStep)
Iterations == (Len(WhileTrace) - 1) \div (Len(WhileBody) + 1)
\* the counter before the loop
Counter == IF "i" \in DOMAIN pre[1].vars THEN pre[1].vars["i"] ELSE Nil
Limit == WhileCond.items[3].i

\* C13: the cond is evaluated before each iteration, and once more at the
\* end; the body forms run in order, once for each time the cond was truthy;
\* the loop returns the value of the last body form of the last iteration,
\* or Nil if the body never ran; (while nil (println 1)) returns Nil, prints
\* nothing and changes no frame.
C13_WhileLoop ==
    /\ IsWhile =>
          LET k == Len(WhileBody)
              T == WhileTrace
          IN /\ Len(T) = Iterations * (k + 1) + 1
             /\ \A p \in 1..Len(T) :
                   LET j == (p - 1) % (k + 1)
                   IN IF j = 0 THEN T[p] = [k |-> "Get", e |-> 1, o |-> WhileCond]
                      ELSE T[p] = [k |-> "Eval", e |-> 1, o |-> WhileBody[j]]
             /\ Iterations = 0 => (ret = Nil /\ heap = pre)
    /\ (IsWhile /\ WhileCond # Nil /\ Counter.t = "Integer") =>
          /\ Iterations = (IF Counter.i < Limit THEN Limit - Counter.i ELSE 0)
          /\ Iterations > 0 => ret = MakeInt(Limit) /\ heap[1].vars["i"] = MakeInt(Limit)
          /\ (Iterations > 0 /\ SetJ \in Range(WhileBody)) => heap[1].vars["j"] = MakeInt(Limit - 1)
          /\ Len(SelectSeq(log, LAMBDA ev : ev.k = "Println")) =
                (IF PrintI \in Range(WhileBody) THEN Iterations ELSE 0)
    /\ (op.k = "Eval" /\ op.o = While(Nil, <<Print1>>)) =>
          /\ ret = Nil
          /\ heap = pre
          /\ \A p \in 1..Len(log) : log[p].k # "Println" /\ ~(log[p].k = "Eval" /\ log[p].o = Print1)

(***************************************************************************)
(* Specification SpecSetq: setq forms evaluated in the frames of a chain    *)
(***************************************************************************)
SetqDepth == 2

Setq(args) == Form(Symbol("setq"), args)
\* (setq), (setq x), (setq x 1), (setq y 2), (setq x 1 y x), (setq y x x 2),
\* (setq x 2 y), (setq x y y 1 x y)
SetqForms == {Setq(<<>>),
              Setq(<<Symbol("x")>>),
              Setq(<<Symbol("x"), MakeInt(1)>>),
              Setq(<<Symbol("y"), MakeInt(2)>>),
              Setq(<<Symbol("x"), MakeInt(1), Symbol("y"), Symbol("x")>>),
              Setq(<<Symbol("y"), Symbol("x"), Symbol("x"), MakeInt(2)>>),
              Setq(<<Symbol("x"), MakeInt(2), Symbol("y")>>),
              Setq(<<Symbol("x"), Symbol("y"), Symbol("y"), MakeInt(1), Symbol("x"), Symbol("y")>>)}

NextSetq ==
    \/ Len(heap) < SetqDepth /\ NewEnvCall
    \/ \E e \in Frames, o \in {Symbol("x"), Symbol("y")} : PutLocalCall(e, o, MakeInt(3))
    \/ \E e \in Frames, v \in SetqForms : EvalCall(e, v)

SpecSetq == Init /\ [][NextSetq]_vars

IsSetq == op.k = "Eval" /\ op.o \in SetqForms
\* the assignments of the pairs from position i on, one after the other:
\* each value is read from the frames as the earlier pairs left them, and
\* written where Put writes it
RECURSIVE Assign(_, _, _, _, _)
Assign(h, e, args, i, last) ==
    IF i > Len(args) THEN [h |-> h, last |-> last]
    ELSE LET name == args[i].name
             v == IF args[i + 1].t = "Symbol" THEN Visible(h, e, args[i + 1].name) ELSE args[i + 1]
             f == PutTarget(h, e, name)
         IN Assign([h EXCEPT ![f].vars = (name :> v) @@ @], e, args, i + 2, v)
ValueForms == [j \in 1..(Len(Operands) \div 2) |-> Operands[2 * j]]

C14_WitnessOdd ==
    /\ IsSetq
    /\ op.o = Setq(<<Symbol("x"), MakeInt(2), Symbol("y")>>)
    /\ ret = ErrMissing
    /\ pre[1].vars # NoVars

(***************************************************************************)
(* Specification SpecBool: forms (or x1 ... xn) and (and x1 ... xn)         *)
(***************************************************************************)
\* nil, true, 1, (list), 's
BoolAtoms == {Nil, True, MakeInt(1), EmptyList, Quoted(Symbol("s"))}
BoolForms == {Form(Symbol(f), args) : f \in {"or", "and"}, args \in SeqsUpTo(BoolAtoms, MaxArgs)}

InitBool == Read(BoolForms)
NextBool == EvalRead

SpecBool == InitBool /\ [][NextBool]_vars

IsBoolForm(f) == op.k = "Eval" /\ op.o \in BoolForms /\ op.o.items[1].name = f
\* truthy: any value except Nil
Truthy(v) == v # Nil

\* C15: (or x1 ... xn) evaluates its operands left to right and returns True
\* at the first one whose value is truthy (any value except Nil), evaluating
\* no later operand, and Nil if none is; (and x1 ... xn) returns Nil at the
\* first operand whose value is Nil, evaluating no later operand, and True
\* otherwise.  The result is always True or Nil.
C15_ShortCircuit ==
    /\ IsBoolForm("or") =>
          LET hit == {j \in 1..Len(Operands) : Truthy(IfValue(Operands[j]))}
          IN IF hit = {} THEN ret = Nil /\ Evaluated = Operands
             ELSE ret = True /\ Evaluated = SubSeq(Operands, 1, First(hit))
    /\ IsBoolForm("and") =>
          LET hit == {j \in 1..Len(Operands) : ~Truthy(IfValue(Operands[j]))}
          IN IF hit = {} THEN ret = True /\ Evaluated = Operands
             ELSE ret = Nil /\ Evaluated = SubSeq(Operands, 1, First(hit))
    /\ (op.k = "Eval" /\ op.o \in BoolForms) => ret \in {True, Nil}

(***************************************************************************)
(* The parser.  The source is the sequence of tokens the scanner returns   *)
(* (whitespace is a token: Whitespace = 0), each with its text; the cursor  *)
(* pos is the next token to scan, and Peek looks at its first character.   *)
(* The alphabet has "(", ")", a blank, the identifier a, the integer 1,     *)
(* the quote mark and @, a character no case of the parser accepts.         *)
(***************************************************************************)
Tok(k, text) == [k |-> k, text |-> text]
Tokens == {Tok("(", "("), Tok(")", ")"), Tok(" ", " "), Tok("Ident", "a"), Tok("Int", "1"),
           Tok("'", "'"), Tok("@", "@")}

\* strconv.ParseInt on the text of an Int token of the alphabet
ParseInt(st) == IF st = "1" THEN 1 ELSE 0

ident(v) ==
    CASE v = "true" -> True
      [] v = "nil" -> Nil
      [] OTHER -> Symbol(v)

\* Parser.SepNext: the next character separates two objects
SepNext(toks, pos) == pos > Len(toks) \/ toks[pos].k \in {" ", "(", ")"}

\* the loop of case scanner.Ident: the identifier takes the text of every
\* token up to the next separator
RECURSIVE ScanIdent(_, _, _)
ScanIdent(toks, pos, id) ==
    IF SepNext(toks, pos) THEN [id |-> id, pos |-> pos]
    ELSE ScanIdent(toks, pos + 1, id \o toks[pos].text)

maybequoted(quoted, v) == IF quoted THEN quote(v) ELSE v

RECURSIVE parse(_, _, _)
RECURSIVE ParseLoop(_, _, _, _, _)
\* the for loop of Parser.parse from the token at pos on, with the list l
\* built so far and the flag quoted
ParseLoop(toks, pos, one, l, quoted) ==
    IF pos > Len(toks) THEN [l |-> l, err |-> GoNil, pos |-> pos]
    ELSE LET tok == toks[pos]
         IN CASE tok.k = "(" ->
                   LET vv == parse(toks, pos + 1, FALSE)
                   IN IF vv.err # GoNil THEN [l |-> <<>>, err |-> vv.err, pos |-> vv.pos]
                      ELSE ParseLoop(toks, vv.pos, one,
                                     Append(l, maybequoted(quoted, MakeList(vv.l))), FALSE)
              [] tok.k = ")" ->
                   [l |-> IF quoted THEN Append(l, maybequoted(quoted, Nil)) ELSE l,
                    err |-> GoNil, pos |-> pos + 1]
              [] tok.k = " " ->
                   IF one THEN [l |-> l, err |-> GoNil, pos |-> pos + 1]
                   ELSE ParseLoop(toks, pos + 1, one, l, quoted)
              [] tok.k = "Ident" ->
                   LET id == ScanIdent(toks, pos + 1, tok.text)
                   IN ParseLoop(toks, id.pos, one, Append(l, maybequoted(quoted, ident(id.id))), FALSE)
              [] tok.k = "Int" ->
                   ParseLoop(toks, pos + 1, one,
                             Append(l, maybequoted(quoted, MakeInt(ParseInt(tok.text)))), FALSE)
              [] tok.k = "'" -> ParseLoop(toks, pos + 1, one, l, TRUE)
              [] OTHER -> [l |-> <<>>, err |-> ErrInvalid, pos |-> pos + 1]

parse(toks, pos, one) ==
    IF pos > Len(toks) THEN [l |-> <<>>, err |-> ErrEOF, pos |-> pos]
    ELSE ParseLoop(toks, pos, one, <<>>, FALSE)

\* Parser.Parse
Parse(toks) == parse(toks, 1, FALSE)

\* Parser.ParseOne, with the scanner at the token pos
ParseOne(toks, pos) == parse(toks, pos, TRUE)

(***************************************************************************)
(* Specification SpecParse: the command reads a source, parses it and      *)
(* evaluates its forms in the root                                         *)
(***************************************************************************)
MaxTokens == 5

Sources == SeqsUpTo(Tokens, MaxTokens)

\* a source waits to be read
InitParse ==
    /\ heap = <<[vars |-> NoVars, next |-> 0]>>
    /\ builtins = [n \in Registered |-> n]
    /\ op \in {[k |-> "Source", toks |-> s] : s \in Sources}
    /\ ret = GoNil
    /\ log = <<>>
    /\ pre = heap
    /\ mem = <<>>

\* main: l, err := p.Parse(); on an error print it and return, otherwise
\* evaluate every form and keep the last result
Main ==
    /\ op.k = "Source"
    /\ LET p == Parse(op.toks)
           o == [k |-> "Main", toks |-> op.toks, l |-> p.l, err |-> p.err, pos |-> p.pos]
       IN IF p.err # GoNil THEN Finish(o, R(GoNil, Machine))
          ELSE Finish(o, EvalBody(Machine, 1, p.l, 1, GoNil))

NextParse == Main

SpecParse == InitParse /\ [][NextParse]_vars

Parsed == op.k = "Main"
\* the source is a quote mark, n times, before the tokens of one Symbol or
\* List X
QuotedForm(n) ==
    /\ Parsed /\ Len(op.toks) > n
    /\ \A j \in 1..n : op.toks[j].k = "'"
    /\ LET x == Parse(SubSeq(op.toks, n + 1, Len(op.toks)))
       IN x.err = GoNil /\ Len(x.l) = 1 /\ x.l[1].t \in {"Symbol", "List"}
          /\ op.toks[n + 1].k \in {"Ident", "("}
TheForm(n) == Parse(SubSeq(op.toks, n + 1, Len(op.toks))).l[1]

\* C16: quote strips exactly one layer: for a Symbol or List X, 'X parses to
\* a Quoted wrapping X and evaluates to X itself; ''X parses to two Quoted
\* layers around X and evaluates to 'X, a Quoted wrapping X.
C16_QuoteLayers ==
    /\ QuotedForm(1) => (op.err = GoNil /\ op.l = <<Quoted(TheForm(1))>> /\ ret = TheForm(1))
    /\ QuotedForm(2) =>
          (op.err = GoNil /\ op.l = <<Quoted(Quoted(TheForm(2)))>> /\ ret = Quoted(TheForm(2)))

\* the number of lists open after the first n tokens of the source
RECURSIVE Depth(_, _)
Depth(toks, n) ==
    IF n = 0 THEN 0
    ELSE Depth(toks, n - 1) + (CASE toks[n].k = "(" -> 1 [] toks[n].k = ")" -> -1 [] OTHER -> 0)
\* no ) closes a list that is not open among the first n tokens
Nested(toks, n) == \A j \in 0..n : Depth(toks, j) >= 0
\* the token at u belongs to an identifier: an Ident token before it is
\* separated from it by no blank and no parenthesis
InIdent(toks, u) ==
    \E j \in 1..(u - 1) : toks[j].k = "Ident" /\ \A i \in (j + 1)..u : toks[i].k \notin {" ", "(", ")"}
\* the unknown tokens of the source that stand outside identifiers
Unknown(toks) == {u \in 1..Len(toks) : toks[u].k = "@" /\ ~InIdent(toks, u)}

\* C20: Parse of a source that ends while a ( is still open returns an error
\* and no forms, as for (a and ( and ((a); a source that ends with every list
\* closed returns its forms and no error; an unknown token returns
\* invalid-token and no forms at any nesting depth.
C20_EndOfInput ==
    /\ (Parsed /\ Len(op.toks) > 0 /\ Unknown(op.toks) = {} /\ Nested(op.toks, Len(op.toks))) =>
          IF Depth(op.toks, Len(op.toks)) > 0
          THEN op.err # GoNil /\ op.l = <<>>
          ELSE op.err = GoNil
    /\ (Parsed /\ Unknown(op.toks) # {} /\ Nested(op.toks, First(Unknown(op.toks)))) =>
          op.err = ErrInvalid /\ op.l = <<>>

(***************************************************************************)
(* Specification SpecList: (list x1 ... xn) and its items, evaluated after  *)
(* (setq a 1)                                                              *)
(***************************************************************************)
\* (setq a 1), (+ 1 2)
SetA1 == Form(Symbol("setq"), <<Symbol("a"), MakeInt(1)>>)
OnePlusTwo == Form(Op("+"), <<MakeInt(1), MakeInt(2)>>)
\* 10, 20, 30, a, (+ 1 2)
ListAtoms == {MakeInt(10), MakeInt(20), MakeInt(30), Symbol("a"), OnePlusTwo}
ListOf(args) == Form(Symbol("list"), args)
FirstOf(x) == Form(Symbol("first"), <<x>>)
RestOf(x) == Form(Symbol("rest"), <<x>>)
\* (begin (setq a 1) f)
AfterSetA(f) == Form(Symbol("begin"), <<SetA1, f>>)
ListForms == UNION {{AfterSetA(ListOf(args)), AfterSetA(FirstOf(ListOf(args))),
                     AfterSetA(FirstOf(RestOf(ListOf(args))))} : args \in SeqsUpTo(ListAtoms, MaxArgs)}

InitList == Read(ListForms)
NextList == EvalRead

SpecList == InitList /\ [][NextList]_vars

\* the value of an item once a is 1
ListValue(x) ==
    CASE x = Symbol("a") -> MakeInt(1)
      [] x = OnePlusTwo -> MakeInt(3)
      [] OTHER -> x

\* C17: (list x1 ... xn) returns the List of the values of x1 ... xn: after
\* (setq a 1), (first (list a)) is 1 and (first (list (+ 1 2))) is 3;
\* (first (rest (list 10 20 30))) is 20.
C17_ListEvaluates ==
    \A args \in SeqsUpTo(ListAtoms, MaxArgs) :
        /\ (op.k = "Eval" /\ op.o = AfterSetA(ListOf(args))) =>
              ret = MakeList([j \in 1..Len(args) |-> ListValue(args[j])])
        /\ (op.k = "Eval" /\ op.o = AfterSetA(FirstOf(ListOf(args))) /\ Len(args) >= 1) =>
              ret = ListValue(args[1])
        /\ (op.k = "Eval" /\ op.o = AfterSetA(FirstOf(RestOf(ListOf(args)))) /\ Len(args) >= 2) =>
              ret = ListValue(args[2])

(***************************************************************************)
(* Specification SpecFind: (find needle haystack) and (contains needle     *)
(* haystack) over Strings and Lists                                        *)
(***************************************************************************)
\* "a", "b", "", "ab", "ba", 1, 2, '(1 2), '(2 1), '("a" 1)
FindAtoms == {MakeString(<<97>>), MakeString(<<98>>), MakeString(<<>>),
              MakeString(<<97, 98>>), MakeString(<<98, 97>>),
              MakeInt(1), MakeInt(2),
              Quoted(MakeList(<<MakeInt(1), MakeInt(2)>>)),
              Quoted(MakeList(<<MakeInt(2), MakeInt(1)>>)),
              Quoted(MakeList(<<MakeString(<<97>>), MakeInt(1)>>))}
FindForms == {Form(Symbol(f), <<n, h>>) : f \in {"find", "contains"}, n, h \in FindAtoms}

InitFind == Read(FindForms)
NextFind == EvalRead

SpecFind == InitFind /\ [][NextFind]_vars

IsFindForm(f) == op.k = "Eval" /\ op.o \in FindForms /\ op.o.items[1].name = f
Needle == EqValue(Operands[1])
Haystack == EqValue(Operands[2])
\* the haystack can be searched for the needle
Searchable == Haystack.t = "List" \/ (Haystack.t = "String" /\ Needle.t = "String")
\* the zero-based positions of the haystack where the needle occurs
Occurrences ==
    IF Haystack.t = "List"
    THEN {p \in 0..(Len(Haystack.items) - 1) : Haystack.items[p + 1] = Needle}
    ELSE {p \in 0..(Len(Haystack.s) - Len(Needle.s)) :
             \A j \in 1..Len(Needle.s) : Haystack.s[p + j] = Needle.s[j]}

\* C18: (find needle haystack) returns the zero-based index of the first
\* occurrence of the needle whenever it occurs, position 0 included, and Nil
\* only when it does not occur; (contains needle haystack) is True exactly
\* when find is not Nil.
C18_FindIndex ==
    /\ (IsFindForm("find") /\ Searchable) =>
          IF Occurrences = {} THEN ret = Nil
          ELSE ret \in {MakeInt(First(Occurrences)), GoInt(First(Occurrences))}
    /\ (IsFindForm("contains") /\ Searchable) => ret = MakeBool(Occurrences # {})

(***************************************************************************)
(* Specification SpecErr: built-in and operator forms over operands that   *)
(* yield an Error                                                          *)
(***************************************************************************)
\* (setq), which yields missing-parameter, and (+ "a"), which yields
\* invalid-parameter-type
Missing == Form(Symbol("setq"), <<>>)
Invalid == Form(Op("+"), <<MakeString(<<97>>)>>)
ErrAtoms == {Missing, Invalid}
ErrOperands == ErrAtoms \cup {MakeInt(1), Nil}
ErrHeads == {Symbol(f) : f \in {"not", "and", "or", "if", "while", "begin", "println",
                                "first", "eval"}}
            \cup {Op("+"), Op("*"), Cond("="), Cond("<")}
ErrForms == {Form(h, args) : h \in ErrHeads, args \in SeqsUpTo(ErrOperands, 2)}

InitErr == Read(ErrForms)
NextErr == EvalRead

SpecErr == InitErr /\ [][NextErr]_vars

\* an operand of the form was evaluated and yielded an Error
OperandFailed ==
    /\ op.k = "Eval" /\ op.o \in ErrForms
    /\ \E p \in 1..Len(log) : log[p].k \in {"Get", "Eval"} /\ log[p].o \in ErrAtoms

\* C19: no built-in catches errors: when the evaluation of an operand of a
\* built-in or operator form yields an Error value, the result of the form
\* is an Error value too.
C19_ErrorsPercolate ==
    (OperandFailed /\ ~IsAbort(ret)) => ret.t = "Error"

\* the tokens of op.toks before the blank at position j and those after it
Before(j) == SubSeq(op.toks, 1, j - 1)
After(j) == SubSeq(op.toks, j + 1, Len(op.toks))
\* a piece of source that is complete: no unknown token, every list closed,
\* no ) without its (, and every quote mark directly before its form
Complete(toks) ==
    /\ Unknown(toks) = {} /\ Nested(toks, Len(toks)) /\ Depth(toks, Len(toks)) = 0
    /\ Len(toks) > 0
    /\ \A i \in 1..Len(toks) : toks[i].k = "'" => (i < Len(toks) /\ toks[i + 1].k # " ")

\* C22: whenever Parse returns without error it has read every token of the
\* input, and its result is every top-level form of the whole input in
\* order: the forms of two complete pieces separated by a blank are the forms
\* of the first followed by the forms of the second; it never returns
\* without error with part of the input unread, as after a ) that closes no
\* open list.
C22_ParseReadsAll ==
    /\ (Parsed /\ op.err = GoNil) => op.pos > Len(op.toks)
    /\ \A j \in 2..(Len(op.toks) - 1) :
          (Parsed /\ op.toks[j].k = " " /\ Complete(Before(j)) /\ Complete(After(j))) =>
              (op.err = GoNil /\ op.l = Parse(Before(j)).l \o Parse(After(j)).l)

(***************************************************************************)
(* Specification SpecOne: the interactive command reads a source one       *)
(* object at a time                                                        *)
(***************************************************************************)
\* the reader is at the start of a source and nothing has been returned
InitOne ==
    /\ heap = <<[vars |-> NoVars, next |-> 0]>>
    /\ builtins = [n \in Registered |-> n]
    /\ op \in {[k |-> "Reader", toks |-> s, pos |-> 1, l |-> <<>>, err |-> GoNil, done |-> 0] : s \in Sources}
    /\ ret = GoNil
    /\ log = <<>>
    /\ pre = heap
    /\ mem = <<>>

\* one turn of the interactive loop: l, err := p.ParseOne(); on an error
\* print it and return, otherwise evaluate the forms of l.  done counts the
\* forms returned before this call.
Interact ==
    /\ op.k \in {"Reader", "ParseOne"}
    /\ op.err = GoNil
    /\ LET p == ParseOne(op.toks, op.pos)
           o == [k |-> "ParseOne", toks |-> op.toks, pos |-> p.pos, l |-> p.l, err |-> p.err,
                 done |-> op.done + Len(op.l)]
       IN IF p.err # GoNil THEN Finish(o, R(GoNil, Machine))
          ELSE Finish(o, EvalBody(Machine, 1, p.l, 1, GoNil))

NextOne == Interact

SpecOne == InitOne /\ [][NextOne]_vars

\* C21: over a complete source, successive ParseOne calls each return exactly
\* one form, in input order, whatever blanks separate the forms or fail to,
\* and once no form remains ParseOne returns the EOF error, which is not the
\* invalid-token error.
C21_OneFormPerCall ==
    /\ (op.k = "ParseOne" /\ Complete(op.toks)) =>
          LET forms == Parse(op.toks).l
          IN IF op.done < Len(forms)
             THEN op.err = GoNil /\ op.l = <<forms[op.done + 1]>>
             ELSE op.err = ErrEOF /\ op.l = <<>>
    /\ ErrEOF # ErrInvalid

(***************************************************************************)
(* Specification SpecFact: the recursive factorial                         *)
(***************************************************************************)
MaxN == 5
FactDepth == 2

\* (if (<= n 1) 1 product)
FactBody(product) ==
    MakeList(<<Symbol("if"), MakeList(<<Cond("<="), Symbol("n"), MakeInt(1)>>), MakeInt(1), product>>)
\* (f (- n 1))
Recur(f) == MakeList(<<Symbol(f), MakeList(<<Op("-"), Symbol("n"), MakeInt(1)>>)>>)
\* (* n (fact (- n 1))), and (* (fact2 (- n 1)) n), which reads n after the
\* recursive call has returned
Product(f) ==
    IF f = "fact" THEN MakeList(<<Op("*"), Symbol("n"), Recur(f)>>)
    ELSE MakeList(<<Op("*"), Recur(f), Symbol("n")>>)
FactNames == {"fact", "fact2"}
FactLambda(f) == Lambda(<<Symbol("n")>>, <<FactBody(Product(f))>>)
\* (setq fact (lambda (n) (if (<= n 1) 1 (* n (fact (- n 1))))))
DefFact(f) ==
    MakeList(<<Symbol("setq"), Symbol(f),
        MakeList(<<Symbol("lambda"), MakeList(<<Symbol("n")>>), FactBody(Product(f))>>)>>)
\* (fact k) and (fact n)
CallFact(f, a) == MakeList(<<Symbol(f), a>>)

\* the values of n in the frames of the callers
CallerN == {0, 3, MaxN}

NextFact ==
    \/ (Len(heap) < FactDepth /\ NewEnvCall)
    \/ \E e \in Frames, k \in CallerN : PutLocalCall(e, Symbol("n"), MakeInt(k))
    \/ \E f \in FactNames : EvalCall(1, DefFact(f))
    \/ \E e \in Frames, f \in FactNames, k \in 0..MaxN : EvalCall(e, CallFact(f, MakeInt(k)))
    \/ \E e \in Frames, f \in FactNames : EvalCall(e, CallFact(f, Symbol("n")))

SpecFact == Init /\ [][NextFact]_vars

RECURSIVE Factorial(_)
Factorial(k) == IF k <= 1 THEN 1 ELSE k * Factorial(k - 1)

\* the last operation called f, defined as the factorial, with an argument
\* whose value in the caller's frame is the Integer k
CalledFact(f, k) ==
    /\ op.k = "Eval" /\ op.o.t = "List" /\ Len(op.o.items) = 2
    /\ op.o.items[1] = Symbol(f)
    /\ GetVar(pre, op.e, f) = FactLambda(f)
    /\ \/ op.o.items[2] = MakeInt(k)
       \/ op.o.items[2] = Symbol("n") /\ GetVar(pre, op.e, "n") = MakeInt(k)
\* the frames made during the last operation, in order
NewFrames == SelectSeq(log, LAMBDA ev : ev.k = "NewEnv")

Heads == {MakeInt(1), MakeString(<<97>>), True, Quoted(Symbol("q")), MakeList(<<>>),
          MakeList(<<Symbol("lambda"), MakeList(<<Symbol("x")>>), Symbol("x")>>)}
\* 2, x, (setq y 1) and (println 1)
HeadOperands == {MakeInt(2), Symbol("x"),
                 MakeList(<<Symbol("setq"), Symbol("y"), MakeInt(1)>>),
                 MakeList(<<Symbol("println"), MakeInt(1)>>)}
HeadForms == {Form(h, args) : h \in Heads, args \in SeqsUpTo(HeadOperands, 2)}

InitHead == Read(HeadForms)
NextHead == EvalRead
SpecHead == InitHead /\ [][NextHead]_vars

IsHeadForm ==
    /\ op.k = "Eval" /\ op.o.t = "List" /\ Len(op.o.items) > 0
    /\ op.o.items[1].t \notin {"Symbol", "Op", "Cond"}

\* Eval was entered for the form alone
OnlyTheForm == \A j \in 1..Len(log) : log[j] = [k |-> "Eval", e |-> op.e, o |-> op.o]

\* C24: Eval of a non-empty List whose first item is neither a Symbol, an Op
\* nor a Cond, such as (1 2 3), ("a") or ((lambda (x) x) 5), returns Nil and
\* evaluates none of the items: nothing is resolved, printed or assigned.
C24_HeadNotCallable ==
    IsHeadForm => (ret = Nil /\ OnlyTheForm /\ heap = pre)

(***************************************************************************)
(* Lists in memory.  The items of a List are a Go slice: a window of len   *)
(* slots, from the offset off on, into an array that has room for cap      *)
(* slots from that offset.  mem holds the arrays; Lists made from one       *)
(* another share an array.                                                 *)
(***************************************************************************)
MaxArrays == 5
MaxItems == 4
MaxSpare == 1

Slice(arr, off, len, cap) == [arr |-> arr, off |-> off, len |-> len, cap |-> cap]
\* the nil slice of List{}
NilSlice == Slice(0, 0, 0, 0)
\* the items a List shows
Items(m, l) == [i \in 1..l.items.len |-> m[l.items.arr][l.items.off + i]]
IsList(v) == v.t = "List"

\* Go's append(s, vs...): with room in the array of s the values are written
\* after the items of s in place; without room the items and the values go
\* to a new array with room for spare slots more than it needs
GoAppend(m, s, vs, spare) ==
    IF Len(vs) = 0 THEN [m |-> m, s |-> s]
    ELSE IF s.len + Len(vs) <= s.cap
    THEN [m |-> [m EXCEPT ![s.arr] =
                    [i \in 1..Len(@) |-> IF i > s.off + s.len /\ i <= s.off + s.len + Len(vs)
                                         THEN vs[i - s.off - s.len] ELSE @[i]]],
          s |-> [s EXCEPT !.len = @ + Len(vs)]]
    ELSE LET n == s.len + Len(vs)
             old == Items(m, MakeList(s))
         IN [m |-> Append(m, [i \in 1..(n + spare) |->
                                 IF i <= s.len THEN old[i]
                                 ELSE IF i <= n THEN vs[i - s.len] ELSE GoNil]),
             s |-> Slice(Len(m) + 1, 0, n, n + spare)]

\* the list a nested parse returns for the items it read: l grown from nil
\* by appendtolist, behind List{items: vv}
ParsedList(m, items, spare) ==
    LET p == GoAppend(m, NilSlice, items, spare) IN [m |-> p.m, v |-> MakeList(p.s)]

RECURSIVE AppendStrings(_, _, _)
RECURSIVE AppendLists(_, _, _, _, _)
\* the String case of append
AppendStrings(args, i, sb) ==
    IF i > Len(args) THEN MakeString(sb)
    ELSE IF args[i].t # "String" THEN ErrInvalidType
    ELSE AppendStrings(args, i + 1, sb \o args[i].s)

\* the List case of append
AppendLists(m, t, args, i, spare) ==
    IF i > Len(args) THEN [m |-> m, v |-> MakeList(t)]
    ELSE IF ~IsList(args[i]) THEN [m |-> m, v |-> ErrInvalidType]
    ELSE LET a == GoAppend(m, t, Items(m, args[i]), spare)
         IN AppendLists(a.m, a.s, args, i + 1, spare)

\* the builtin append, applied to the values GetList made of its operands
append(m, args, spare) ==
    IF Len(args) = 0 THEN [m |-> m, v |-> MakeList(NilSlice)]
    ELSE CASE args[1].t = "String" -> [m |-> m, v |-> AppendStrings(args, 2, args[1].s)]
           [] args[1].t = "List" -> AppendLists(m, args[1].items, args, 2, spare)
           [] OTHER -> [m |-> m, v |-> ErrInvalidType]

\* the builtin rest, applied to the value of its operand
restOf(l, operand) ==
    IF ~IsList(l) THEN invalidType(operand)
    ELSE IF l.items.len = 0 THEN Nil
    ELSE MakeList(Slice(l.items.arr, l.items.off + 1, l.items.len - 1, l.items.cap - 1))

(***************************************************************************)
(* Specification SpecAppend: lists held in variables of the root           *)
(***************************************************************************)
\* The programs assign the variables once each, in this order: a, l1 and l2
\* from a literal or a list form, b and c from append or rest.
Order == <<"a", "l1", "l2", "b", "c">>
ListNames == {Order[i] : i \in 1..Len(Order)}
Bound == DOMAIN heap[1].vars
\* the variable the next form assigns
Target(y) == Cardinality(Bound) < Len(Order) /\ y = Order[Cardinality(Bound) + 1]
\* the literals '(), '(4) and '(5)
Literals == {<<>>, <<MakeInt(4)>>, <<MakeInt(5)>>}

\* the end of Eval for (setq y form), once the value of form is known
Assigned(y, form, r) ==
    /\ heap' = Put(Machine, 1, Symbol(y), r.v).s.heap
    /\ mem' = r.m
    /\ op' = [k |-> "Eval", e |-> 1, o |-> MakeList(<<Symbol("setq"), Symbol(y), form>>)]
    /\ ret' = r.v
    /\ log' = <<>>
    /\ pre' = heap
    /\ UNCHANGED builtins

\* parse and Eval of (setq y 'items)
SetqLiteral(y, items, spare) ==
    /\ Len(mem) < MaxArrays
    /\ Assigned(y, Quoted(MakeList(items)), ParsedList(mem, items, spare))

\* parse and Eval of (setq y (list items)): list returns its operands as they
\* stand in the form, the items of the form after the first
SetqList(y, items, spare) ==
    /\ Len(mem) < MaxArrays
    /\ LET p == ParsedList(mem, <<Symbol("list")>> \o items, spare)
       IN Assigned(y, MakeList(<<Symbol("list")>> \o items),
                   [m |-> p.m, v |-> MakeList(Slice(p.v.items.arr, 1, Len(items), p.v.items.cap - 1))])

\* Eval of (setq y (append x...)) for variables x
SetqAppend(y, xs, spare) ==
    LET args == [i \in 1..Len(xs) |-> GetVar(heap, 1, xs[i])]
        r == append(mem, args, spare)
    IN /\ Len(r.m) <= MaxArrays
       /\ IsList(r.v) => r.v.items.len <= MaxItems
       /\ Assigned(y, MakeList(<<Symbol("append")>> \o [i \in 1..Len(xs) |-> Symbol(xs[i])]), r)

\* Eval of (setq y (rest x)) for a variable x
SetqRest(y, x) ==
    Assigned(y, MakeList(<<Symbol("rest"), Symbol(x)>>),
             [m |-> mem, v |-> restOf(GetVar(heap, 1, x), Symbol(x))])

InitAppend == Init

NextAppend ==
    \/ \E items \in Literals, spare \in 0..MaxSpare :
          Target("a") /\ SetqLiteral("a", items, spare)
    \/ \E y \in {"l1", "l2"}, items \in Literals \ {<<>>} :
          Target(y) /\ SetqLiteral(y, items, 0)
    \/ \E spare \in 0..MaxSpare :
          Target("a") /\ SetqList("a", <<MakeInt(1), MakeInt(2)>>, spare)
    \/ \E y \in {"b", "c"}, xs \in SeqsUpTo(Bound, 2), spare \in 0..MaxSpare :
          Target(y) /\ SetqAppend(y, xs, spare)
    \/ \E y \in {"b", "c"}, x \in Bound : Target(y) /\ SetqRest(y, x)

SpecAppend == InitAppend /\ [][NextAppend]_vars

\* the variable x holds a List
HoldsList(h, x) == x \in DOMAIN h[1].vars /\ IsList(h[1].vars[x])

\* C25: a List is never changed in place: a step that does not assign the
\* variable x leaves the items of the List x holds as they were, so that
\* after (setq b (append a l1)) a later (append a l2) leaves b equal to a
\* followed by l1 and a as it was.
C25_ListsNotMutated ==
    [][\A x \in ListNames :
          (HoldsList(heap, x) /\ op'.o.items[2] # Symbol(x)) =>
              Items(mem', heap'[1].vars[x]) = Items(mem, heap[1].vars[x])]_vars

(***************************************************************************)
(* Specification SpecParam: a Lambda that assigns its parameters            *)
(***************************************************************************)
ParamDepth == 2

\* (setq p 5), (setq q 6) and (+ p q)
BodyH == <<MakeList(<<Symbol("setq"), Symbol("p"), MakeInt(5)>>),
           MakeList(<<Symbol("setq"), Symbol("q"), MakeInt(6)>>),
           MakeList(<<Op("+"), Symbol("p"), Symbol("q")>>)>>
LambdaH == Lambda(<<Symbol("p"), Symbol("q")>>, BodyH)
\* (setq h (lambda (p q) (setq p 5) (setq q 6) (+ p q)))
DefH == MakeList(<<Symbol("setq"), Symbol("h"),
            MakeList(<<Symbol("lambda"), MakeList(<<Symbol("p"), Symbol("q")>>)>> \o BodyH)>>)
\* (h), (h 1), (h 1 2), (h p) and (h q p)
CallsH == {Form(Symbol("h"), args) :
              args \in {<<>>, <<MakeInt(1)>>, <<MakeInt(1), MakeInt(2)>>, <<Symbol("p")>>,
                        <<Symbol("q"), Symbol("p")>>}}

NextParam ==
    \/ (Len(heap) < ParamDepth /\ NewEnvCall)
    \/ \E e \in Frames, x \in {"p", "q"}, k \in 1..2 : PutLocalCall(e, Symbol(x), MakeInt(k))
    \/ EvalCall(1, DefH)
    \/ \E e \in Frames, c \in CallsH : EvalCall(e, c)

SpecParam == Init /\ [][NextParam]_vars

\* the last operation called h, defined as above
CalledH ==
    /\ op.k = "Eval" /\ op.o \in CallsH
    /\ GetVar(pre, op.e, "h") = LambdaH

\* C26: an assignment to a parameter in the body of a Lambda writes the
\* frame of the call, whether or not the call gave the parameter an
\* argument: the body reads the values it assigned, and the variables of
\* the same names in the caller's frames are as they were.
C26_ParamsAssignedLocally ==
    CalledH => (ret = MakeInt(11) /\ heap = pre)

\* (h) called below the root, where p and q are bound to other values
C26_Witness ==
    /\ CalledH /\ op.o = Form(Symbol("h"), <<>>) /\ op.e = 2
    /\ "p" \in DOMAIN pre[2].vars /\ pre[2].vars["p"] = MakeInt(1)
    /\ "q" \in DOMAIN pre[1].vars /\ pre[1].vars["q"] = MakeInt(2)
    /\ ret = MakeInt(11)
    /\ heap[2].vars["p"] = MakeInt(1) /\ heap[1].vars["q"] = MakeInt(2)

(***************************************************************************)
(* Specification SpecLambda: the parameter lists lambda accepts            *)
(***************************************************************************)
MaxParams == 3

\* x, y, 1, 'z and (x)
ParamItems == {Symbol("x"), Symbol("y"), MakeInt(1), Quoted(Symbol("z")), MakeList(<<Symbol("x")>>)}
\* in the place of the parameter list: a list of up to MaxParams items, or
\* x, 1, "a" or 'x
ParamLists == {MakeList(ps) : ps \in SeqsUpTo(ParamItems, MaxParams)}
NotLists == {Symbol("x"), MakeInt(1), MakeString(<<97>>), Quoted(Symbol("x"))}
\* (lambda), (lambda params) and (lambda params x)
LambdaForms ==
    {Form(Symbol("lambda"), <<>>)}
        \cup {Form(Symbol("lambda"), <<ps>> \o b) : ps \in ParamLists \cup NotLists, b \in {<<>>, <<Symbol("x")>>}}

InitLambda == Read(LambdaForms)
NextLambda == EvalRead
SpecLambda == InitLambda /\ [][NextLambda]_vars

IsLambdaForm == op.k = "Eval" /\ op.o \in LambdaForms

\* C27: the parameters of every Lambda value are Symbols, all of them;
\* lambda without a parameter list yields missing-parameter, and with
\* something else than a list in its place invalid-parameter-type.
C27_ParamsAreSymbols ==
    /\ (IsLambdaForm /\ ret.t = "Lambda") => \A i \in 1..Len(ret.args) : ret.args[i].t = "Symbol"
    /\ (IsLambdaForm /\ Len(op.o.items) = 1) => ret = ErrMissing
    /\ (IsLambdaForm /\ Len(op.o.items) > 1 /\ op.o.items[2].t # "List") => ret = ErrInvalidType

(***************************************************************************)
(* Specification SpecValue: what find, rand, format and the forms without  *)
(* a result hand to the forms around them                                  *)
(***************************************************************************)
\* (find "b" "ab"), (find 2 (list 1 2)), (rand), (rand 3), (rand 4 5)
Numbers == {Form(Symbol("find"), <<MakeString(<<98>>), MakeString(<<97, 98>>)>>),
            Form(Symbol("find"), <<MakeInt(2), Form(Symbol("list"), <<MakeInt(1), MakeInt(2)>>)>>),
            Form(Symbol("rand"), <<>>),
            Form(Symbol("rand"), <<MakeInt(3)>>),
            Form(Symbol("rand"), <<MakeInt(4), MakeInt(5)>>)}
\* (format "a"), (format "n%d" 7), (format "%v")
Formats == {Form(Symbol("format"), <<MakeString(<<97>>)>>),
            Form(Symbol("format"), <<MakeString(<<110, 37, 100>>), MakeInt(7)>>),
            Form(Symbol("format"), <<MakeString(<<37, 118>>)>>)}
\* (let (x) x), (begin), (while nil 1)
Empties == {Form(Symbol("let"), <<MakeList(<<Symbol("x")>>), Symbol("x")>>),
            Form(Symbol("begin"), <<>>),
            Form(Symbol("while"), <<Nil, MakeInt(1)>>)}
Producers == Numbers \cup Formats \cup Empties
\* (+ p 1), (* 2 p), (- p), (setq v p), (println p), (if p 1 2), (begin p),
\* (eval p), (let (x) (setq x p)), (first (list p))
Around(p) == {p,
              Form(Op("+"), <<p, MakeInt(1)>>),
              Form(Op("*"), <<MakeInt(2), p>>),
              Form(Op("-"), <<p>>),
              Form(Symbol("setq"), <<Symbol("v"), p>>),
              Form(Symbol("println"), <<p>>),
              Form(Symbol("if"), <<p, MakeInt(1), MakeInt(2)>>),
              Form(Symbol("begin"), <<p>>),
              Form(Symbol("eval"), <<p>>),
              Form(Symbol("let"), <<MakeList(<<Symbol("x")>>), Form(Symbol("setq"), <<Symbol("x"), p>>)>>)}
UniverseForms == UNION {Around(p) : p \in Producers}

InitValue == Read(UniverseForms)
\* Eval of the form read, with any number the generator may yield
EvalRolled == op.k = "Read" /\ \E d \in Dice : Finish([k |-> "Eval", e |-> 1, o |-> op.o], Eval(Rolled(d), 1, op.o))
NextValue == EvalRolled
SpecValue == InitValue /\ [][NextValue]_vars

RECURSIVE IsValue(_)
\* the variants of Value
IsValue(v) ==
    \/ v.t \in {"Boolean", "Integer", "Float", "String", "Symbol", "Op", "Cond", "Lambda", "Error"}
    \/ v.t = "Quoted" /\ IsValue(v.q)
    \/ v.t = "List" /\ \A i \in 1..Len(v.items) : IsValue(v.items[i])

Evaluated1 == op.k = "Eval" /\ ~IsAbort(ret)

\* C28: the values are a closed universe: what Eval returns and what a frame
\* holds is a Value; the numbers find and rand yield are Integers or Floats
\* that the arithmetic operators accept; format yields a String; a let local
\* never assigned, a begin without forms and a while whose body never ran
\* yield Nil.
C28_ClosedUniverse ==
    /\ Evaluated1 => IsValue(ret)
    /\ \A e \in Frames : \A x \in DOMAIN heap[e].vars : IsValue(heap[e].vars[x])
    /\ (Evaluated1 /\ op.o \in Numbers) => ret.t \in {"Integer", "Float"}
    /\ \A p \in Numbers :
          (Evaluated1 /\ op.o \in {Form(Op("+"), <<p, MakeInt(1)>>), Form(Op("*"), <<MakeInt(2), p>>), Form(Op("-"), <<p>>)})
              => ret.t \in {"Integer", "Float"}
    /\ (Evaluated1 /\ op.o \in Formats) => ret.t = "String"
    /\ (Evaluated1 /\ op.o \in Empties) => ret = Nil

(***************************************************************************)
(* Specification SpecSym: a comparator and its mirror image                *)
(***************************************************************************)
\* true, nil, 1, 2, 1.0, 1.5, 2.0, "a", "b"
SymAtoms == {True, Nil, MakeInt(1), MakeInt(2), MakeFloat(1, 1), MakeFloat(3, 2), MakeFloat(2, 1),
             MakeString(<<97>>), MakeString(<<98>>)}
SymForms == {Form(Cond(c), <<a, b>>) : c \in Conds, a, b \in SymAtoms}

InitSym == Read(SymForms)
NextSym == EvalRead
SpecSym == InitSym /\ [][NextSym]_vars

IsSymForm == op.k = "Eval" /\ op.o \in SymForms
\* what (c a b) yields in the frames as they are
Yields(c, a, b) == Eval(Machine, 1, Form(Cond(c), <<a, b>>)).v
\* the comparator that says of b and a what c says of a and b
Mirror(c) ==
    CASE c = "<" -> ">"
      [] c = ">" -> "<"
      [] c = "<=" -> ">="
      [] c = ">=" -> "<="
      [] OTHER -> c

\* C29: the comparators agree with one another on comparable operands
\* (Booleans, Integers, Floats, Strings, and an Integer with a Float):
\* (= a b) yields what (= b a) yields, (< a b) what (> b a) yields, (<= a b)
\* what (>= b a) yields, and of (< a b), (= a b) and (> a b) exactly one
\* yields true when a and b are numbers.
C29_ComparatorsAgree ==
    IsSymForm =>
        LET c == op.o.items[1].cond
            a == op.o.items[2]
            b == op.o.items[3]
        IN /\ (a.t = b.t \/ (Numeric(a) /\ Numeric(b))) => ret = Yields(Mirror(c), b, a)
           /\ (Numeric(a) /\ Numeric(b)) =>
                 Cardinality({d \in {"<", "=", ">"} : Yields(d, a, b) = True}) = 1

(***************************************************************************)
(* Specification SpecTotal: divisions and draws that cannot be carried out *)
(***************************************************************************)
\* 7, 1, 0, 2.5, 0.5
TotalAtoms == {MakeInt(7), MakeInt(1), MakeInt(0), MakeFloat(5, 2), MakeFloat(1, 2)}
\* (rand 2), (rand 0), (rand -1), (rand 0.5), (rand "a")
Draws == {Form(Symbol("rand"), <<n>>) :
             n \in {MakeInt(2), MakeInt(0), MakeInt(-1), MakeFloat(1, 2), MakeString(<<97>>)}}
TotalForms ==
    {Form(Op(o), <<a, b>>) : o \in {"+", "/", "%"}, a, b \in TotalAtoms} \cup Draws

InitTotal == Read(TotalForms)
NextTotal == EvalRolled
SpecTotal == InitTotal /\ [][NextTotal]_vars

\* the last operation divided by zero: an Integer by an operand whose Int()
\* is 0 with / or %, or a Float with % by an operand that truncates to 0
DividedByZero ==
    /\ op.k = "Eval" /\ op.o \in TotalForms /\ op.o.items[1].t = "Op"
    /\ IntOf(op.o.items[3]) = 0
    /\ \/ op.o.items[2].t = "Integer" /\ op.o.items[1].op \in {"/", "%"}
       \/ op.o.items[2].t = "Float" /\ op.o.items[1].op = "%"
\* the last operation drew from an empty range
DrewFromNothing ==
    /\ op.k = "Eval" /\ op.o \in Draws
    /\ CanInt(op.o.items[2]) /\ IntOf(op.o.items[2]) <= 0

\* C30: Eval is total: it returns for every form, and a failure is an Error
\* value it returns, never an abort of the evaluation; so for an Integer
\* divided with / or % by zero, for a Float taken % a divisor that truncates
\* to 0, and for (rand n) with n <= 0.
C30_EvalTotal ==
    /\ op.k = "Eval" => ~IsAbort(ret)
    /\ (DividedByZero \/ DrewFromNothing) => ret.t = "Error"

====
